---- MODULE Spec2Model ----
(***************************************************************************)
(* Model of the terminal UI engine: the Messages scrollback (chat.py),     *)
(* the Scrollable text viewport (display.py) and the Screen overlay stack  *)
(* with its input dispatch (base.py, util.py).                             *)
(***************************************************************************)
EXTENDS Integers, Sequences, FiniteSets, TLC

VARIABLES
    ms,         \* the Messages object: messages and the viewport integers
    msg_count,  \* Message.msg_count, the next message id
    sc,         \* a ScrollSuggest text viewport
    scr,        \* the Screen: overlay stack, floor, text owner, its Viewport
    fo,         \* the overlays' futures, their waiters and the timer tasks
    lp,         \* the event loop: ready tasks, the read-loop, paints
    col,        \* a Coloring: its text and its formatting runs
    gen         \* a generator made by Messages.iterate_with

msgVars == <<ms, msg_count>>
vars == <<ms, msg_count, sc, scr, fo, lp, col, gen>>

(* ------------------------------ bounds --------------------------------- *)
\* most messages held at once
MaxMsgs == 3
\* most messages ever created (caps Message.msg_count)
MaxMid == 3
\* tallest wrapped message, in lines (0 = filtered out)
MaxMsgHeight == 3
\* largest amount passed to up()/down()
MaxAmount == 2
\* parent.height, the rows of the chat panel (the viewport has one less)
ScreenHeight == 3

Min(a, b) == IF a <= b THEN a ELSE b
Max(a, b) == IF a >= b THEN a ELSE b

(* ------------------------------ Message -------------------------------- *)
\* A Message: its id, the number of lines it wraps to at the panel's width
\* (0 when filtered), and the number of lines of its cached display.
Message(mid, nat) == [mid |-> mid, nat |-> nat, height |-> 0]

\* Message.cache_display: re-wrap; a filtered message caches no lines.
cache_display(msg) == [msg EXCEPT !.height = msg.nat]

(* ------------------------------ Messages ------------------------------- *)
\* Messages.__init__
MessagesInit ==
    [all |-> <<>>, selector |-> 0, start_message |-> 0, start_inner |-> 0,
     height_up |-> 0, hidden_top |-> 0,
     lazy_lo |-> 0, lazy_hi |-> 0, lazy_offset |-> 0]

\* self.parent.height-1
ViewHeight == ScreenHeight - 1

\* deque indexing self._all_messages[-k]: k >= 1 counts from the newest,
\* k <= 0 is Python's index -k counted from the oldest.
ValidIndex(all, k) ==
    IF k >= 1 THEN k <= Len(all) ELSE (0 - k) < Len(all)
PyIndex(all, k) ==
    IF k >= 1 THEN Len(all) - k + 1 ELSE (0 - k) + 1
At(all, k) == all[PyIndex(all, k)]

\* x in range(*self._lazy_bounds)
InCachedRange(m, x) == m.lazy_lo <= x /\ x < m.lazy_hi

\* Messages.selected can be evaluated and is a Message
HasSelected(m) == m.selector # 0 /\ ValidIndex(m.all, m.selector)
selected(m) == At(m.all, m.selector)

\* the five viewport integers
Five(m) == <<m.selector, m.start_message, m.start_inner, m.height_up, m.hidden_top>>

\* the result of a call: the object afterwards, the value returned, whether
\* an exception escaped, and whether the top or bottom of the log stopped it
Result(m, ret, err, edge) == [m |-> m, ret |-> ret, err |-> err, edge |-> edge]

\* a clear(False) that forgets the lines above the selection
clear_selectionKeepsHeight(m) ==
    [m EXCEPT !.selector = 0, !.start_message = 0, !.start_inner = 0,
              !.hidden_top = 0]

\* Messages.clear(False)
clear_selection(m) ==
    [m EXCEPT !.selector = 0, !.start_message = 0, !.start_inner = 0,
              !.height_up = 0, !.hidden_top = 0]

\* a stop_select that resets the window and leaves the selector
stop_selectKeepsSelector(m) ==
    IF m.selector # 0
    THEN [clear_selection(m) EXCEPT !.selector = m.selector,
                                    !.lazy_offset = 0]
    ELSE m

\* Messages.stop_select
stop_select(m) ==
    IF m.selector # 0
    THEN LET m1 == IF ~InCachedRange(m, m.start_message - m.lazy_offset)
                   THEN [m EXCEPT !.lazy_lo = 0, !.lazy_hi = 0]
                   ELSE m
         IN [clear_selection(m1) EXCEPT !.lazy_offset = 0]
    ELSE m

\* Messages.redo_lines
redo_lines(m) ==
    [m EXCEPT !.hidden_top = 0, !.lazy_lo = m.start_message,
              !.lazy_hi = m.start_message]

\* Messages.scroll_to(index)
scroll_to(m, index) ==
    IF m.all = <<>> THEN m
    ELSE LET m1 == [m EXCEPT !.selector = index, !.start_message = index - 1,
                             !.hidden_top = 0]
             m2 == IF index # 0
                   THEN [m1 EXCEPT
                            !.start_inner = Max(selected(m1).height - ViewHeight, 0),
                            !.height_up = Min(selected(m1).height, ViewHeight)]
                   ELSE m1
         IN [m2 EXCEPT !.lazy_lo = index, !.lazy_hi = index, !.lazy_offset = 0]

\* Messages.scroll_top: -1 when the oldest message was selected already,
\* and 0 for the None it returns otherwise
scroll_top(m) ==
    LET m1 == scroll_to(m, Len(m.all))
    IN Result(m1, IF m1.selector = m.selector THEN 0 - 1 ELSE 0, FALSE, FALSE)

\* the while loop of Messages._justify_start
RECURSIVE JustifyWalk(_, _, _, _, _)
JustifyWalk(all, start, startlines, last_height, amount) ==
    IF startlines <= amount
    THEN IF ~ValidIndex(all, start)
         THEN [start |-> start, startlines |-> startlines,
               last_height |-> last_height, err |-> TRUE]
         ELSE JustifyWalk(all, start + 1, startlines + At(all, start).height,
                          At(all, start).height, amount)
    ELSE [start |-> start, startlines |-> startlines,
          last_height |-> last_height, err |-> FALSE]

\* Messages._justify_start
justify_start(m, amount, height) ==
    LET w == JustifyWalk(m.all, m.start_message + 1, 0 - m.start_inner, 0, amount)
        inner == IF w.startlines - w.last_height = amount THEN 0
                 ELSE IF w.startlines = w.last_height THEN amount
                 ELSE w.last_height - w.startlines + amount
    IN IF w.err
       THEN [m |-> m, err |-> TRUE]
       ELSE [m |-> [m EXCEPT !.start_message = w.start - 2,
                             !.start_inner = inner,
                             !.height_up = height],
             err |-> FALSE]

\* the while loop of Messages.up: walk upward over `amount` messages of
\* non-zero height, re-caching those outside the lazy bounds
RECURSIVE UpWalk(_, _, _, _, _, _)
UpWalk(m, all, select, num_messages, addlines, amount) ==
    IF num_messages < amount /\ select <= Len(all)
    THEN LET i == PyIndex(all, select)
             all1 == IF ~InCachedRange(m, select - m.lazy_offset)
                     THEN [all EXCEPT ![i] = cache_display(all[i])]
                     ELSE all
             last_height == all1[i].height
         IN IF last_height # 0
            THEN UpWalk(m, all1, select + 1, num_messages + 1,
                        addlines + last_height, amount)
            ELSE UpWalk(m, all1, select + 1, num_messages, addlines, amount)
    ELSE [all |-> all, select |-> select, addlines |-> addlines,
          edge |-> num_messages < amount]

\* Messages.up from "go by messages now" on (chat.py:294-331)
UpByMessages(m, amount, height) ==
    LET w == UpWalk(m, m.all, m.selector + 1, 0, 0, amount)
        m1 == [m EXCEPT !.all = w.all,
                        !.lazy_hi = Max(m.lazy_hi + m.lazy_offset, w.select),
                        !.lazy_offset = 0,
                        !.selector = w.select - 1,
                        !.height_up = m.height_up + w.addlines]
        delta == m1.height_up - height
    IN IF m1.height_up > height
       THEN IF amount = 1
            THEN IF w.addlines - delta > 0
                 THEN Result([m1 EXCEPT !.hidden_top = delta, !.height_up = height],
                             1, FALSE, w.edge)
                 ELSE LET j == justify_start(m1, Min(w.addlines, 1), height)
                      IN IF j.err THEN Result(j.m, 0, TRUE, w.edge)
                         ELSE Result([j.m EXCEPT !.hidden_top = w.addlines - 1],
                                     1, FALSE, w.edge)
            ELSE LET j == justify_start(m1, delta, height)
                 IN IF j.err THEN Result(j.m, 0, TRUE, w.edge)
                    ELSE Result(j.m, delta, FALSE, w.edge)
       ELSE Result(m1, w.addlines, FALSE, w.edge)

\* Messages.up
up(m, amount) ==
    LET height == ViewHeight
    IN IF m.start_message + 1 = m.selector
       THEN \* the currently selected message is the top message
            IF ~HasSelected(m)
            THEN Result(m, 0, TRUE, FALSE)
            ELSE LET new_inner == Min(m.start_inner + amount,
                                      selected(m).height - height)
                     m1 == [m EXCEPT !.hidden_top = 0]
                     inner_diff == new_inner - m.start_inner
                 IN IF new_inner >= m.start_inner
                    THEN IF amount - inner_diff <= 0
                         THEN Result([m1 EXCEPT !.start_inner = new_inner],
                                     inner_diff, FALSE, FALSE)
                         ELSE UpByMessages([m1 EXCEPT !.start_inner = new_inner],
                                           amount - inner_diff, height)
                    ELSE UpByMessages(m1, amount, height)
       ELSE IF m.hidden_top > 0
       THEN LET delta == m.hidden_top - amount
            IN IF delta >= 0 \/ amount > 1
               THEN LET j == justify_start([m EXCEPT !.hidden_top = delta],
                                           amount, height)
                    IN Result(j.m, IF j.err THEN 0 ELSE amount, j.err, FALSE)
               ELSE UpByMessages([m EXCEPT !.hidden_top = 0],
                                 amount - m.hidden_top, height)
       ELSE UpByMessages(m, amount, height)

\* the while loop of Messages.down: walk downward over amount+1 messages of
\* non-zero height; reaching select = 0 ends the selection
RECURSIVE DownWalk(_, _, _, _, _, _, _)
DownWalk(m, all, select, last_height, num_messages, addlines, amount) ==
    IF num_messages <= amount
    THEN IF select = 0
         THEN [all |-> all, select |-> select, last_height |-> last_height,
               addlines |-> addlines, stop |-> TRUE, err |-> FALSE]
         ELSE IF ~ValidIndex(all, select)
         THEN [all |-> all, select |-> select, last_height |-> last_height,
               addlines |-> addlines, stop |-> FALSE, err |-> TRUE]
         ELSE LET i == PyIndex(all, select)
                  all1 == IF ~InCachedRange(m, select - m.lazy_offset)
                          THEN [all EXCEPT ![i] = cache_display(all[i])]
                          ELSE all
                  h == all1[i].height
              IN IF h # 0
                 THEN DownWalk(m, all1, select - 1, h, num_messages + 1,
                               addlines + h, amount)
                 ELSE DownWalk(m, all1, select - 1, h, num_messages,
                               addlines, amount)
    ELSE [all |-> all, select |-> select, last_height |-> last_height,
          addlines |-> addlines, stop |-> FALSE, err |-> FALSE]

\* DownByMessages with the selected message's own height left out of the
\* height_up arithmetic (chat.py:398 without "- last_height")
DownByMessagesNoLast(m, amount, height) ==
    LET w == DownWalk(m, m.all, m.selector, 0, 0, 0, amount)
        mc == [m EXCEPT !.all = w.all]
        m1 == [mc EXCEPT !.lazy_lo = Min(m.lazy_lo + m.lazy_offset, w.select + 1),
                         !.lazy_offset = 0,
                         !.selector = w.select + 1,
                         !.height_up = m.height_up - w.addlines,
                         !.hidden_top = 0]
    IN IF w.err THEN Result(mc, 0, TRUE, FALSE)
       ELSE IF w.stop THEN Result(stop_select(mc), 0, FALSE, TRUE)
       ELSE Result(m1, w.addlines, FALSE, FALSE)

\* Messages.down from "go by messages now" on (chat.py:373-411)
DownByMessages(m, amount, height) ==
    LET w == DownWalk(m, m.all, m.selector, 0, 0, 0, amount)
        mc == [m EXCEPT !.all = w.all]
        m1 == [mc EXCEPT !.lazy_lo = Min(m.lazy_lo + m.lazy_offset, w.select + 1),
                         !.lazy_offset = 0,
                         !.selector = w.select + 1,
                         !.height_up = m.height_up - (w.addlines - w.last_height)]
    IN IF w.err THEN Result(mc, 0, TRUE, FALSE)
       ELSE IF w.stop THEN Result(stop_select(mc), 0, FALSE, TRUE)
       ELSE IF m1.height_up < w.last_height /\ w.select < m1.start_message
       THEN IF amount = 1
            THEN Result([m1 EXCEPT !.start_message = w.select,
                                   !.start_inner = selected(m1).height - 1,
                                   !.height_up = 1],
                        1, FALSE, FALSE)
            ELSE Result([m1 EXCEPT !.start_message = w.select,
                                   !.start_inner = Max(selected(m1).height - height, 0),
                                   !.height_up = Min(selected(m1).height, height),
                                   !.hidden_top = 0],
                        w.addlines, FALSE, FALSE)
       ELSE IF m1.hidden_top > 0
       THEN Result([m1 EXCEPT !.height_up = Max(height - m1.hidden_top, 1),
                              !.hidden_top = 0],
                   w.addlines, FALSE, FALSE)
       ELSE Result([m1 EXCEPT !.hidden_top = 0], w.addlines, FALSE, FALSE)

\* Messages.down
down(m, amount) ==
    LET height == ViewHeight
    IN IF m.selector = 0
       THEN Result(m, 0, FALSE, FALSE)
       ELSE IF m.selector = m.start_message + 1 /\ m.start_inner > 0
       THEN \* scroll within the message
            LET new_inner == Max(0 - 1, m.start_inner - amount)
                inner_diff == m.start_inner - new_inner
                m1 == [m EXCEPT !.hidden_top = 0,
                                !.start_inner = new_inner,
                                !.height_up = Min(height, m.height_up + amount)]
            IN IF new_inner < 0
               THEN IF m.selector = 1
                    THEN Result(stop_select(m1), 0, FALSE, TRUE)
                    ELSE Result(m1, inner_diff, FALSE, FALSE)
               ELSE IF amount - inner_diff <= 0
               THEN Result(m1, inner_diff, FALSE, FALSE)
               ELSE DownByMessages(m1, amount - inner_diff, height)
       ELSE DownByMessages(m, amount, height)

\* append that forgets to move the selector with the new message
appendKeepSelector(m, msg) == [m EXCEPT !.all = Append(m.all, cache_display(msg))]

\* Messages.append
append(m, msg) ==
    LET all1 == Append(m.all, cache_display(msg))
        m1 == [m EXCEPT !.all = all1]
    IN IF m.selector # 0
       THEN IF m.start_message = 0
               /\ cache_display(msg).height + m.height_up <= ViewHeight
            THEN [m1 EXCEPT !.selector = m.selector + 1,
                            !.height_up = m.height_up + cache_display(msg).height,
                            !.lazy_offset = m.lazy_offset + 1]
            ELSE [m1 EXCEPT !.selector = m.selector + 1,
                            !.start_message = m.start_message + 1]
       ELSE m1

\* Messages.prepend
prepend(m, msg) == [m EXCEPT !.all = <<cache_display(msg)>> \o m.all]

\* del self._all_messages[-start]
DelAt(all, k) ==
    [j \in 1..(Len(all) - 1) |->
        IF j < PyIndex(all, k) THEN all[j] ELSE all[j + 1]]

\* the selector bookkeeping of Messages.delete for one removed message
\* (chat.py:459-468); start is the loop index after `start -= 1`
DeleteAdjust(m, msg, start) ==
    IF m.selector > start
    THEN LET m1 == [m EXCEPT !.selector = m.selector + 1,
                             !.height_up = m.height_up - msg.height]
         IN IF start = m1.selector
            THEN LET m2 == [m1 EXCEPT !.height_up = m1.height_up + m1.start_inner]
                 IN IF m2.selector = m2.start_inner
                    THEN [m2 EXCEPT !.start_inner = m2.start_inner + 1,
                                    !.height_up = selected(m2).height]
                    ELSE m2
            ELSE m1
    ELSE m

\* the while loop of Messages.delete; test(msg) is msg.mid \in mids
RECURSIVE DeleteWalk(_, _, _, _)
DeleteWalk(m, start, mids, delete_all) ==
    IF start <= Len(m.all)
    THEN LET msg == At(m.all, start)
         IN IF msg.mid \in mids
            THEN LET m1 == DeleteAdjust([m EXCEPT !.all = DelAt(m.all, start)],
                                        msg, start - 1)
                 IN IF ~delete_all THEN m1
                    ELSE DeleteWalk(m1, start, mids, delete_all)
            ELSE DeleteWalk(m, start + 1, mids, delete_all)
    ELSE m

\* a delete that always stops at the first match
deleteOnce(m, mids, delete_all) ==
    IF m.all = <<>> THEN m
    ELSE redo_lines(DeleteWalk(m, 1, mids, FALSE))

\* Messages.delete, with the parent's redo_lines that ends it
delete(m, mids, delete_all) ==
    IF m.all = <<>> THEN m
    ELSE redo_lines(DeleteWalk(m, 1, mids, delete_all))

\* a row of the panel nothing was drawn on, and a row holding wrapped line
\* number `line` (1 = top line) of the message `mid`, with the selection
\* marker SELECT_AND_MOVE in front of it or not
BlankRow == [mid |-> 0 - 1, line |-> 0, reverse |-> FALSE]
Row(mid, line, reverse) == [mid |-> mid, line |-> line, reverse |-> reverse]

\* lines[-k] of a Python list
Neg(lines, k) == Len(lines) - k + 1

\* the for loop of Messages.display over reversed(msg.display)
RECURSIVE DisplayLines(_, _, _, _, _, _)
DisplayLines(lines, msg, reverse, line_count, ignore, line_number) ==
    IF line_count >= msg.height
    THEN [lines |-> lines, ignore |-> ignore, line_number |-> line_number]
    ELSE IF ignore > line_count
    THEN DisplayLines(lines, msg, reverse, line_count + 1, ignore, line_number)
    ELSE IF line_number > Len(lines)
    THEN [lines |-> lines, ignore |-> ignore, line_number |-> line_number]
    ELSE DisplayLines(
             [lines EXCEPT ![Neg(lines, line_number)] =
                 Row(msg.mid, msg.height - line_count, reverse)],
             msg, reverse, line_count + 1, 0, line_number + 1)

\* the while loop of Messages.display over the messages
RECURSIVE DisplayWalk(_, _, _, _, _, _)
DisplayWalk(m, all, lines, line_number, msg_number, ignore) ==
    IF line_number <= Len(lines) /\ msg_number <= Len(all)
    THEN LET i == PyIndex(all, msg_number)
             all1 == [all EXCEPT ![i] = cache_display(all[i])]
             d == DisplayLines(lines, all1[i], msg_number = m.selector, 0,
                               ignore, line_number)
         IN DisplayWalk(m, all1, d.lines, d.line_number, msg_number + 1,
                        d.ignore)
    ELSE [all |-> all, lines |-> lines, msg_number |-> msg_number]

\* a display that starts on the last row, where the separator goes
Messages_displayLastRow(m, lines) ==
    IF Len(m.all) = 0
    THEN [m |-> m, lines |-> lines]
    ELSE LET w == DisplayWalk(m, m.all, lines, 1, m.start_message + 1,
                              m.start_inner)
         IN [m |-> [m EXCEPT
                       !.all = w.all,
                       !.lazy_lo = Min(m.lazy_lo + m.lazy_offset,
                                       m.start_message + 1),
                       !.lazy_hi = Max(m.lazy_hi + m.lazy_offset,
                                       w.msg_number),
                       !.lazy_offset = 0],
             lines |-> w.lines]

\* Messages.display(lines)
Messages_display(m, lines) ==
    IF Len(m.all) = 0
    THEN [m |-> m, lines |-> lines]
    ELSE LET w == DisplayWalk(m, m.all, lines, 2, m.start_message + 1,
                              m.start_inner)
         IN [m |-> [m EXCEPT
                       !.all = w.all,
                       !.lazy_lo = Min(m.lazy_lo + m.lazy_offset,
                                       m.start_message + 1),
                       !.lazy_hi = Max(m.lazy_hi + m.lazy_offset,
                                       w.msg_number),
                       !.lazy_offset = 0],
             lines |-> w.lines]

\* the while loop of Messages.from_position; found tells that msg was bound
RECURSIVE PositionWalk(_, _, _, _, _, _)
PositionWalk(all, start, height, y, found, mid) ==
    IF height < y
    THEN IF start > Len(all)
         THEN [none |-> TRUE, found |-> found, mid |-> mid, height |-> height]
         ELSE PositionWalk(all, start + 1, height + At(all, start).height, y,
                           TRUE, At(all, start).mid)
    ELSE [none |-> FALSE, found |-> found, mid |-> mid, height |-> height]

\* Messages.from_position(x, y): the message at the row y and the depth of
\* the row into it; none is the result ("", -1), err the exception of
\* reading msg before the loop has bound it
from_position(m, x, y) ==
    LET up_y == ViewHeight - y
        w == PositionWalk(m.all, m.start_message + 1, 0 - m.start_inner, up_y,
                          FALSE, 0 - 1)
    IN IF up_y <= 0 \/ w.none
       THEN [none |-> TRUE, err |-> FALSE, mid |-> 0 - 1, depth |-> 0 - 1]
       ELSE IF ~w.found
       THEN [none |-> FALSE, err |-> TRUE, mid |-> 0 - 1, depth |-> 0 - 1]
       ELSE [none |-> FALSE, err |-> FALSE, mid |-> w.mid,
             depth |-> w.height - up_y]

(* ------------------------ Messages.iterate_with ------------------------ *)
\* what a callback does with a message: it returns a truthy or a falsy
\* value, or it raises an Exception
Outcomes == {"true", "false", "raises"}

\* most calls of the callback with one message that are counted
MaxVisits == 2

\* no generator has been made
NoGenerator ==
    [state |-> "none", select |-> 0, callback |-> <<>>, yielded |-> <<>>,
     visits |-> <<>>]

\* Messages.iterate_with(callback): the generator, its body not entered yet;
\* callback gives what the callback does with the message of each id, and
\* visits counts how often it was called with it
iterate_with(m, callback) ==
    [state |-> "created", select |-> 0, callback |-> callback,
     yielded |-> <<>>, visits |-> [mid \in DOMAIN callback |-> 0]]

\* a pass of the while loop that goes on to the next message when the
\* callback raises
passSkipsRaising(m, g) ==
    IF g.select > Len(m.all)
    THEN [g EXCEPT !.state = "done"]
    ELSE LET message == At(m.all, g.select)
             g1 == [g EXCEPT !.visits[message.mid] = Min(@ + 1, MaxVisits)]
         IN IF g.callback[message.mid] = "raises"
            THEN [g1 EXCEPT !.select = @ + 1]
            ELSE IF g.callback[message.mid] = "true"
            THEN [g1 EXCEPT !.state = "suspended",
                            !.yielded = Append(@, <<message.mid, g.select>>)]
            ELSE [g1 EXCEPT !.select = @ + 1]

\* a pass of the while loop of iterate_with: the loop test, the call of the
\* callback, and the continue, the yield or the step to the next message
pass(m, g) ==
    IF g.select > Len(m.all)
    THEN [g EXCEPT !.state = "done"]
    ELSE LET message == At(m.all, g.select)
             g1 == [g EXCEPT !.visits[message.mid] = Min(@ + 1, MaxVisits)]
         IN IF g.callback[message.mid] = "raises"
            THEN g1
            ELSE IF g.callback[message.mid] = "true"
            THEN [g1 EXCEPT !.state = "suspended",
                            !.yielded = Append(@, <<message.mid, g.select>>)]
            ELSE [g1 EXCEPT !.select = @ + 1]

\* the generator goes on: a new one enters its body, one suspended at the
\* yield steps to the next message, one inside the loop makes a pass
resume(m, g) ==
    IF g.state = "created"
    THEN IF m.all = <<>> THEN [g EXCEPT !.state = "done"]
         ELSE [g EXCEPT !.state = "running", !.select = 1]
    ELSE IF g.state = "suspended"
    THEN [g EXCEPT !.state = "running", !.select = @ + 1]
    ELSE IF g.state = "running" THEN pass(m, g)
    ELSE g

(* ------------------------ Scrollable (display.py) ---------------------- *)
\* the characters typed in the model: a word character, a separator that is
\* also line breaking, and the completer's sigil; all one column wide
Chars == {"a", " ", "@"}
\* _SANE_TEXTBOX: the characters that split words (\s is the space here;
\* the backquote, never typed in the model, is left out)
SANE_TEXTBOX == {" ", "-", "+", "/", "~", ",", ";", "="}
\* _LINE_BREAKING (the ideographic space is not among Chars)
LINE_BREAKING == {"-", " "}
MAX_NONSCROLL_WIDTH == 5
TABLEN == 4
\* Python's None in the integer fields _lastpos and _lastdisp
None == -1

\* the escape character, one element of a text like every character
ESC == "ESC"
\* str.isalpha for the characters of the model
Letters ==
    {"a", "b", "c", "d", "e", "f", "g", "h", "i", "j", "k", "l", "m", "n",
     "o", "p", "q", "r", "s", "t", "u", "v", "w", "x", "y", "z"}
isalpha(i) == i \in Letters
\* a character of two columns
WIDE == "W"
\* wcwidth: a printable character takes one column or two, the control
\* characters (tab, newline, escape) have no width
wcwidth(i) ==
    IF i \in {"\t", "\n", "\r", ESC} THEN -1 ELSE IF i = WIDE THEN 2 ELSE 1

\* collen from element i on: an escape sequence runs from the escape
\* character to the first letter and takes no column
RECURSIVE collen_from(_, _, _)
collen_from(string, i, escape) ==
    IF i > Len(string) THEN 0
    ELSE IF ~(string[i] = ESC \/ escape)
         THEN Max(0, wcwidth(string[i])) + collen_from(string, i + 1, FALSE)
         ELSE collen_from(string, i + 1, ~isalpha(string[i]))
\* collen
collen(string) == collen_from(string, 1, FALSE)
\* string[:n] and string[n:] for 0 <= n
Take(string, n) == SubSeq(string, 1, Min(n, Len(string)))
Drop(string, n) == IF n >= Len(string) THEN <<>> ELSE SubSeq(string, n + 1, Len(string))
\* list[k] with Python's negative indices
PyAt(list, k) == IF k < 0 THEN list[Len(list) + k + 1] ELSE list[k + 1]
startswith(string, prefix) ==
    Len(prefix) <= Len(string) /\ Take(string, Len(prefix)) = prefix

\* ScrollSuggest.__init__ over Scrollable.__init__ (width > _TABLEN)
Scrollable(width, string) ==
    [str |-> string, width |-> width, pos |-> Len(string),
     disp |-> Max(0, collen(string) - width),
     nonscroll |-> <<>>, nonscroll_width |-> 0,
     suggest_list |-> <<>>, suggest_index |-> 0, clear_suggest |-> FALSE,
     lastdisp |-> None, lastpos |-> None]

\* an _onchanged that drops the suggestions on every change
_onchangedAlways(s) ==
    [s EXCEPT !.suggest_index = -1, !.suggest_list = <<>>,
              !.lastpos = None, !.lastdisp = None, !.clear_suggest = TRUE]

\* ScrollSuggest._onchanged
_onchanged(s) ==
    IF s.clear_suggest
    THEN [s EXCEPT !.suggest_index = -1, !.suggest_list = <<>>,
                   !.lastpos = None, !.lastdisp = None]
    ELSE [s EXCEPT !.clear_suggest = TRUE]

\* the state change of Scrollable.show
show(s) == [s EXCEPT !.disp = Min(s.disp, Len(s.str))]

setnonscroll(s, new) ==
    LET check == collen(new)
    IN _onchanged([s EXCEPT
           !.nonscroll = IF check > MAX_NONSCROLL_WIDTH
                         THEN Take(new, MAX_NONSCROLL_WIDTH) ELSE new,
           !.nonscroll_width = Min(check, MAX_NONSCROLL_WIDTH)])

\* setwidth (new > 0, otherwise DisplayException)
setwidth(s, new) == _onchanged([s EXCEPT !.width = new])

\* movepos that scrolls right only once the cursor is past the width
moveposLate(s, dist) ==
    IF s.str = <<>> THEN _onchanged([s EXCEPT !.pos = 0, !.disp = 0])
    ELSE LET pos == Max(0, Min(Len(s.str), s.pos + dist))
             curspos == pos - s.disp
         IN _onchanged([s EXCEPT !.pos = pos,
                !.disp = IF curspos <= 0 THEN Max(0, s.disp + dist)
                         ELSE IF curspos > s.width
                              THEN Min(pos - s.width + 1, s.disp + dist)
                              ELSE s.disp])

movepos(s, dist) ==
    IF s.str = <<>> THEN _onchanged([s EXCEPT !.pos = 0, !.disp = 0])
    ELSE LET pos == Max(0, Min(Len(s.str), s.pos + dist))
             curspos == pos - s.disp
         IN _onchanged([s EXCEPT !.pos = pos,
                !.disp = IF curspos <= 0 THEN Max(0, s.disp + dist)
                         ELSE IF curspos + 1 >= s.width
                              THEN Min(pos - s.width + 1, s.disp + dist)
                              ELSE s.disp])

home(s) == _onchanged([s EXCEPT !.pos = 0, !.disp = 0])
end(s) == movepos([s EXCEPT !.pos = 0, !.disp = 0], Len(s.str))
setstr(s, new) == end([s EXCEPT !.str = new])

\* _UP_TO_WORD_RE.match(u): whether it matches, and the end of group 1,
\* which is the start of the last word of u (u begins with a space)
UpToWordMatches(u) == \E i \in 1..Len(u) : u[i] \notin SANE_TEXTBOX
UpToWordEnd1(u) ==
    CHOOSE i \in 1..Len(u) :
        /\ u[i] \in SANE_TEXTBOX
        /\ i < Len(u)
        /\ u[i + 1] \notin SANE_TEXTBOX
        /\ \A j \in (i + 1)..(Len(u) - 1) :
               ~(u[j] \in SANE_TEXTBOX /\ u[j + 1] \notin SANE_TEXTBOX)
\* _NEXT_WORD_RE.match(v): the end of group 1, leading separators then one
\* word (v ends with a space)
NextWordMatches(v) == \E i \in 1..Len(v) : v[i] \notin SANE_TEXTBOX
NextWordEnd1(v) ==
    CHOOSE i \in 1..Len(v) :
        /\ v[i] \notin SANE_TEXTBOX
        /\ (i < Len(v) => v[i + 1] \in SANE_TEXTBOX)
        /\ \A j \in 1..(i - 1) :
               v[j] \notin SANE_TEXTBOX => v[j + 1] \notin SANE_TEXTBOX

wordback(s) ==
    LET u == <<" ">> \o Take(s.str, s.pos)
    IN IF UpToWordMatches(u) THEN movepos(s, UpToWordEnd1(u) - s.pos - 1)
       ELSE home(s)

wordnext(s) ==
    LET v == Drop(s.str, s.pos) \o <<" ">>
    IN IF NextWordMatches(v) THEN movepos(s, NextWordEnd1(v)) ELSE end(s)

Scrollable_append(s, new) ==
    movepos([s EXCEPT !.str = Take(s.str, s.pos) \o new \o Drop(s.str, s.pos)],
            Len(new))

backspace(s) ==
    IF s.pos = 0 THEN s
    ELSE movepos([s EXCEPT !.str = Take(s.str, s.pos - 1) \o Drop(s.str, s.pos)],
                 -1)

delchar(s) ==
    _onchanged([s EXCEPT !.str = Take(s.str, s.pos) \o Drop(s.str, s.pos + 1)])

delword(s) ==
    LET u == <<" ">> \o Take(s.str, s.pos)
    IN IF UpToWordMatches(u)
       THEN LET span == UpToWordEnd1(u) - 1
            IN movepos([s EXCEPT !.str = Take(s.str, span) \o Drop(s.str, s.pos)],
                       span - s.pos)
       ELSE _onchanged([s EXCEPT !.str = Drop(s.str, s.pos),
                                 !.disp = 0, !.pos = 0])

delnextword(s) ==
    LET v == Drop(s.str, s.pos) \o <<" ">>
    IN IF NextWordMatches(v)
       THEN _onchanged([s EXCEPT !.str = Take(s.str, s.pos)
                                     \o Drop(s.str, s.pos + NextWordEnd1(v))])
       ELSE _onchanged([s EXCEPT !.str = Take(s.str, s.pos)])

Scrollable_clear(s) == home([s EXCEPT !.str = <<>>])

(* ---------------------- ScrollSuggest and Sigil ------------------------ *)
\* the completer of the model: one local sigil with a list of suggestions,
\* no global sigils and no extra completers
SIGIL == <<"@">>
SUGGESTIONS == << <<"a">>, <<"a", "a">> >>

\* Sigil.complete on the last word: (cursor adjustment, suggestion list)
Sigil_complete(last_word) ==
    IF startswith(last_word, SIGIL)
    THEN [adjust |-> Len(SIGIL),
          list |-> SelectSeq(SUGGESTIONS,
                     LAMBDA w : startswith(w, Drop(last_word, Len(SIGIL))))]
    ELSE [adjust |-> 0, list |-> <<>>]

\* _splitwords: the start of the word under the cursor (_lastpos)
last_word_pos(s) ==
    LET breaks == {i \in 1..Min(s.pos, Len(s.str)) : s.str[i] \in LINE_BREAKING}
    IN IF breaks = {} THEN 0
       ELSE CHOOSE i \in breaks : \A j \in breaks : j <= i

\* a _complete that never moves on to another suggestion
_completeNoAdvance(s, direction) ==
    IF s.suggest_list # <<>>
    THEN LET suggestion == PyAt(s.suggest_list, s.suggest_index)
         IN movepos([s EXCEPT !.clear_suggest = FALSE,
                              !.pos = s.lastpos,
                              !.disp = s.lastdisp,
                              !.str = Take(s.str, s.lastpos) \o suggestion
                                          \o Drop(s.str, s.pos)],
                    Len(suggestion))
    ELSE s

\* ScrollSuggest._complete
_complete(s, direction) ==
    IF s.suggest_list # <<>>
    THEN LET n == Len(s.suggest_list)
             index == IF n > 1 THEN (s.suggest_index + direction) % n
                      ELSE s.suggest_index
             suggestion == PyAt(s.suggest_list, index)
         IN movepos([s EXCEPT !.suggest_index = index,
                              !.clear_suggest = FALSE,
                              !.pos = s.lastpos,
                              !.disp = s.lastdisp,
                              !.str = Take(s.str, s.lastpos) \o suggestion
                                          \o Drop(s.str, s.pos)],
                    Len(suggestion))
    ELSE s

complete(s) ==
    IF s.suggest_list = <<>>
    THEN LET start == last_word_pos(s)
             found == Sigil_complete(SubSeq(s.str, start + 1, s.pos))
             lastpos == start + found.adjust
         IN _complete([s EXCEPT !.suggest_list = found.list,
                                !.lastpos = lastpos,
                                !.lastdisp = Max(0, s.disp - (s.pos - lastpos)),
                                !.suggest_index = -1], 1)
    ELSE _complete(s, 1)

backcomplete(s) == _complete(s, -1)

(* ------------------------------ History (util.py) --------------------- *)
\* the size the History of the Screen's Viewport is modelled with (the
\* keyword size of History.__init__)
HistorySize == 2

\* History.__init__: no entries, the browsing index at the bottom; bottom
\* is read for its truth value only, <<>> stands for None and for ""
History(size) == [history |-> <<>>, selhis |-> 0, size |-> size, bottom |-> <<>>]

\* what a History call leaves and returns
Shown(h, ret) == [h |-> h, ret |-> ret]

\* self.history[-self._selhis] = replace
Rewritten(h, replace) ==
    [h EXCEPT !.history[Len(h.history) - h.selhis + 1] = replace]

\* History.nexthist
nexthist(h, replace) ==
    IF h.history = <<>> THEN Shown(h, <<>>)
    ELSE LET h1 == IF replace # <<>>
                   THEN IF h.selhis = 0 THEN [h EXCEPT !.bottom = replace]
                        ELSE Rewritten(h, replace)
                   ELSE h
             h2 == [h1 EXCEPT !.selhis = IF @ < Len(h1.history) THEN @ + 1
                                         ELSE @]
         IN Shown(h2, h2.history[Len(h2.history) - h2.selhis + 1])

\* History.prevhist
prevhist(h, replace) ==
    IF h.history = <<>> THEN Shown(h, <<>>)
    ELSE LET h1 == IF replace # <<>> /\ h.selhis # 0
                   THEN Rewritten(h, replace) ELSE h
             h2 == [h1 EXCEPT !.selhis = IF @ > 0 THEN @ - 1 ELSE @]
             entry == IF h2.selhis # 0
                      THEN h2.history[Len(h2.history) - h2.selhis + 1]
                      ELSE <<>>
         IN Shown(h2, IF entry # <<>> THEN entry ELSE h2.bottom)

\* self.history[-self._size:]
LastOf(list, n) ==
    IF Len(list) <= n THEN list ELSE SubSeq(list, Len(list) - n + 1, Len(list))

\* History.append
History_append(h, new) ==
    [h EXCEPT !.history = LastOf(IF h.bottom = <<>> THEN Append(@, new) ELSE @,
                                 h.size),
              !.bottom = <<>>,
              !.selhis = 0]

(* ----------------------- overlays (base.py, input.py) ------------------ *)
\* the overlay objects of the model, one per class that differs in the
\* attributes the Screen reads: a ChatOverlay, a ConfirmOverlay, a
\* ListOverlay, a plain TextOverlay and the search TextOverlay that
\* ListOverlay.open_search builds with the prefix '/'
Overlays == {"chat", "confirm", "list", "text", "search"}
\* the input units: ^w, a key only lists bind (^r), a printable character
\* and a key nothing binds
Units == {"quit", "nav", "print", "unbound"}

\* the class attribute replace
replace(o) == o \in {"chat", "list"}
\* isinstance(o, TextOverlay)
isTextOverlay(o) == o \in {"chat", "text", "search"}
\* TextOverlay.isolated (ChatOverlay clears it)
isolated(o) == o \in {"text", "search"}
\* TextOverlay._nonscroll as set when the overlay was built
nonscroll(o) == IF o = "search" THEN <<"/">> ELSE <<>>
\* the keys bound in o.keys (ChatOverlay unbinds ^w)
keys(o) ==
    (IF o = "chat" THEN {} ELSE {"quit"}) \cup (IF o = "list" THEN {"nav"} ELSE {})
\* OverlayBase.terminate_input with _term left None
terminate_input(o) == replace(o)
\* KeyContainer.__call__ finds a handler: a bound key, or the text handler
\* -1 of a TextOverlay for a printable character while do_input is set
handles(o, unit, do_input) ==
    unit \in keys(o) \/ (unit = "print" /\ do_input /\ isTextOverlay(o))

(* ----------------------------- Screen (base.py) ------------------------ *)
\* the guessed terminal width of Screen.__init__
SCREEN_WIDTH == 40

\* Screen.__init__, and the overlays built: building the search overlay
\* has already pushed its prefix to the Viewport; with it the mouse:
\* KeyContainer._last_mouse, the events queued in the curses driver, and the
\* overlay whose mouse handler ran last; of the _NScrollable in Screen.text
\* its _escape_mode and its History
ScreenInit ==
    [active |-> TRUE, candisplay |-> FALSE, ins |-> <<>>,
     last_replace |-> 0, last_text |-> -1,
     text |-> setnonscroll(Scrollable(SCREEN_WIDTH, <<>>), nonscroll("search")),
     index |-> [o \in Overlays |-> None],
     last_mouse |-> <<>>, driver |-> <<>>, by |-> "none", own |-> "none",
     escape_mode |-> FALSE, history |-> History(HistorySize)]

\* Screen.update_input: shows the Viewport of the text owner
update_input(s) ==
    IF s.active /\ s.candisplay /\ s.last_text >= 0
    THEN [s EXCEPT !.text = show(s.text)]
    ELSE s

\* a Viewport call made through Screen.text: _NScrollable._onchanged ends
\* with parent.update_input()
NScrollable(s, text) == update_input([s EXCEPT !.text = text])

\* position i of the stack, 0-based as in the source
InsAt(s, i) == s.ins[i + 1]
\* the greatest 0-based position in hits (1-based positions), None if empty
Last(hits) ==
    IF hits = {} THEN None
    ELSE (CHOOSE i \in hits : \A j \in hits : j <= i) - 1
\* what the loop of pop_overlay finds: the last replace overlay and the
\* last TextOverlay
LastReplace(ins) == Last({i \in 1..Len(ins) : replace(ins[i])})
LastText(ins) == Last({i \in 1..Len(ins) : isTextOverlay(ins[i])})
\* the 0-based position of o in ins
PositionOf(ins, o) == (CHOOSE i \in 1..Len(ins) : ins[i] = o) - 1
InStack(ins, o) == \E i \in 1..Len(ins) : ins[i] = o

\* Screen.add_overlay
add_overlay(s, o) ==
    LET i == Len(s.ins)
        s1 == [s EXCEPT !.index[o] = i, !.ins = Append(@, o),
                        !.last_replace = IF replace(o) THEN i ELSE @]
    IN IF isTextOverlay(o)
       THEN update_input(
                [NScrollable(s1, setnonscroll(s1.text, nonscroll(o)))
                     EXCEPT !.last_text = i])
       ELSE s1

\* OverlayBase.add, and TextOverlay.add, which clears the text of an
\* isolated overlay (_modified unset) whether or not it was just added
add(s, o) ==
    LET a == IF s.index[o] = None THEN add_overlay(s, o) ELSE s
    IN IF isTextOverlay(o) /\ isolated(o)
       THEN NScrollable(a, Scrollable_clear(a.text))
       ELSE a

\* del self._ins[k]
DelIns(ins, k) == SubSeq(ins, 1, k) \o SubSeq(ins, k + 2, Len(ins))

\* Screen.pop_overlay that leaves the other overlays' index alone
pop_overlayNoReindex(s, o) ==
    LET ins1 == DelIns(s.ins, s.index[o])
        lr == LastReplace(ins1)
        lt == LastText(ins1)
    IN [s EXCEPT !.ins = ins1, !.index[o] = None,
                 !.last_replace = IF lr = None THEN @ ELSE lr,
                 !.last_text = lt]

\* Screen.pop_overlay
pop_overlay(s, o) ==
    LET ins1 == DelIns(s.ins, s.index[o])
        was_text == s.index[o] = s.last_text
        lr == LastReplace(ins1)
        s1 == [s EXCEPT !.ins = ins1,
                        !.last_replace = IF lr = None THEN @ ELSE lr,
                        !.last_text = LastText(ins1),
                        !.index = [p \in Overlays |->
                                      IF InStack(ins1, p)
                                      THEN PositionOf(ins1, p) ELSE @[p]]]
        s2 == IF was_text /\ isolated(o)
              THEN NScrollable(s1, Scrollable_clear(s1.text))
              ELSE s1
        s3 == IF was_text /\ s2.last_text > 0
              THEN NScrollable(s2, setnonscroll(s2.text,
                                       nonscroll(InsAt(s2, s2.last_text))))
              ELSE s2
    IN update_input([s3 EXCEPT !.index[o] = None])

\* OverlayBase.remove; ChatOverlay.remove stops the screen at the bottom
remove(s, o) ==
    IF s.index[o] # None
    THEN pop_overlay(IF o = "chat" /\ s.index[o] = 0
                     THEN [s EXCEPT !.active = FALSE] ELSE s, o)
    ELSE s

\* the result of Screen.input: the screen afterwards, the 0-based stack
\* positions offered the unit in order, the position whose handler ran (None
\* if none), whether an IndexError escaped, and whether ChatOverlay.run_key
\* called stop_select
InputResult(s, offered, ran, err, deselect) ==
    [s |-> s, offered |-> offered, ran |-> ran, err |-> err,
     deselect |-> deselect]

\* context.run_key(o, chars, do_input) once o.keys found a handler: ^w
\* returns -1 and the overlay removes itself, a printable character goes to
\* text.append_bytes; a ChatOverlay context (no message selected) follows a
\* falsy return of a text handler with stop_select and update_input
run_key(s, context, o, unit) ==
    LET s1 == CASE unit = "quit" -> remove(s, o)
                [] unit = "print" ->
                       NScrollable(s, Scrollable_append(s.text, <<"a">>))
                [] OTHER -> s
    IN IF context = "chat" /\ unit = "print" THEN update_input(s1) ELSE s1

\* the loop of Screen.input over reversed(self._ins)
RECURSIVE InputWalk(_, _, _, _, _, _)
InputWalk(s, context, pos, unit, do_input, offered) ==
    LET o == s.ins[pos]
        off == Append(offered, pos - 1)
    IN IF handles(o, unit, do_input)
       THEN InputResult(run_key(s, context, o, unit), off, pos - 1, FALSE,
                        context = "chat" /\ unit = "print")
       ELSE IF terminate_input(o) \/ pos = 1
            THEN InputResult(s, off, None, FALSE, FALSE)
            ELSE InputWalk(s, context, pos - 1, unit, FALSE, off)

\* Screen.input once a unit has been read
input(s, unit) ==
    IF s.ins = <<>> \/ s.last_replace < 0
    THEN InputResult(s, <<>>, None, FALSE, FALSE)
    ELSE IF s.last_replace >= Len(s.ins)
         THEN InputResult(s, <<>>, None, TRUE, FALSE)
         ELSE InputWalk(s, InsAt(s, s.last_replace), Len(s.ins), unit, TRUE,
                        <<>>)

(* --------------------------- KeyContainer (util.py) -------------------- *)
\* the names of _MOUSE_BUTTONS
Buttons == {"left", "middle", "right", "wheel-up", "wheel-down"}
\* KEY_MOUSE is bound in o.keys: ConfirmOverlay calls nomouse
mouse_bound(o) == o # "confirm"
\* the button states with a handler in o.keys._mouse, and whether the
\* handler of any state ("mouse", -1) is there
mouse_states(o) ==
    CASE o = "chat" -> {"wheel-up", "wheel-down"}
      [] o = "list" -> {"left", "right", "wheel-up", "wheel-down"}
      [] OTHER -> {}
mouse_any(o) == o = "chat"

\* what _callmouse leaves: the screen, whether a handler ran and the
\* (x, y, state) it took, <<>> when curses.getmouse raised curses.error
Moused(s, handled, data) == [s |-> s, handled |-> handled, data |-> data]

\* KeyContainer._callmouse for the keys of o with chars [-1]: the data is
\* the cached _last_mouse, or else read from the driver; a state without a
\* handler is cached and KeyException raised
_callmouse(s, o) ==
    LET data == IF s.last_mouse # <<>> THEN s.last_mouse
                ELSE IF s.driver # <<>> THEN Head(s.driver) ELSE <<>>
        s1 == IF s.last_mouse # <<>> THEN [s EXCEPT !.last_mouse = <<>>]
              ELSE IF s.driver # <<>> THEN [s EXCEPT !.driver = Tail(@)]
              ELSE s
    IN IF data = <<>> THEN Moused(s1, FALSE, data)
       ELSE IF data[3] \notin mouse_states(o) /\ ~mouse_any(o)
       THEN Moused([s1 EXCEPT !.last_mouse = data], FALSE, data)
       ELSE Moused(s1, TRUE, data)

\* KeyContainer.mouse(state=, x=, y=) on the keys of o: the data is put in
\* the cache and _callmouse run; the cache is emptied when no handler took it
mouse(s, o, data) ==
    LET r == _callmouse([s EXCEPT !.last_mouse = data], o)
    IN IF r.handled THEN r
       ELSE Moused([r.s EXCEPT !.last_mouse = <<>>], FALSE, r.data)

\* the loop of Screen.input over reversed(self._ins) for KEY_MOUSE
RECURSIVE MouseWalk(_, _)
MouseWalk(s, pos) ==
    LET o == s.ins[pos]
        r == IF mouse_bound(o) THEN _callmouse(s, o)
             ELSE Moused(s, FALSE, <<>>)
    IN IF r.handled THEN [r EXCEPT !.s.by = o]
       ELSE IF terminate_input(o) \/ pos = 1 THEN r
       ELSE MouseWalk(r.s, pos - 1)

\* Screen.input once KEY_MOUSE has been read
mouse_input(s) ==
    IF s.ins = <<>> \/ s.last_replace < 0 \/ s.last_replace >= Len(s.ins)
    THEN Moused(s, FALSE, <<>>)
    ELSE MouseWalk(s, Len(s.ins))

(* ------------------------ Coloring (display.py) ------------------------ *)
\* len(colors.effects), len(colors.colors) as _ColorManager.__init__ leaves
\* them, and colors._effects_bits
EFFECTS == 2
PREDEFINED == 5
effects_bits == (2 ^ EFFECTS) - 1

\* Python's ^, & and | on integers >= 0
RECURSIVE BitXor(_, _)
BitXor(a, b) ==
    IF a = 0 THEN b
    ELSE IF b = 0 THEN a
    ELSE ((a + b) % 2) + 2 * BitXor(a \div 2, b \div 2)
RECURSIVE BitAnd(_, _)
BitAnd(a, b) ==
    IF a = 0 \/ b = 0 THEN 0
    ELSE ((a % 2) * (b % 2)) + 2 * BitAnd(a \div 2, b \div 2)
RECURSIVE BitOr(_, _)
BitOr(a, b) ==
    IF a = 0 THEN b
    ELSE IF b = 0 THEN a
    ELSE Max(a % 2, b % 2) + 2 * BitOr(a \div 2, b \div 2)

\* list.insert(i, x) at the 1-based place i
InsertAt(list, i, x) == SubSeq(list, 1, i - 1) \o <<x>> \o SubSeq(list, i, Len(list))
\* list[:-1]
Front(list) == SubSeq(list, 1, Len(list) - 1)

\* Coloring(string): no runs; err is set by a call that raised IndexError
Coloring(string) ==
    [str |-> string, positions |-> <<>>, formatting |-> <<>>, maxpos |-> -1,
     err |-> FALSE]

\* "i = 0; while position > self._positions[i]: i += 1" from the 1-based
\* place from on: the place the loop stops at, Len + 1 when it runs off the
\* list (IndexError)
RECURSIVE WhileBelow(_, _, _)
WhileBelow(positions, position, from) ==
    IF from > Len(positions) THEN from
    ELSE IF position > positions[from]
         THEN WhileBelow(positions, position, from + 1)
         ELSE from

\* the branch of _insert_color for a position not beyond _maxpos, i being
\* where the loop stopped
insert_color_at(c, position, formatting, i) ==
    IF i > Len(c.positions) THEN [c EXCEPT !.err = TRUE]
    ELSE IF c.positions[i] = position
         THEN [c EXCEPT !.formatting[i] =
                            BitOr(formatting, BitAnd(@, effects_bits))]
         ELSE [c EXCEPT !.positions = InsertAt(@, i, position),
                        !.formatting = InsertAt(@, i, formatting)]

\* Coloring._insert_color
_insert_color(c, position, formatting) ==
    IF position > c.maxpos
    THEN [c EXCEPT !.positions = Append(@, position),
                   !.formatting = Append(@, formatting),
                   !.maxpos = position]
    ELSE insert_color_at(c, position, formatting,
                         WhileBelow(c.positions, position, 1))

\* Coloring.insert_color
insert_color(c, position, formatting) ==
    _insert_color(c,
                  IF position < 0 THEN Max(position + Len(c.str), 0)
                  ELSE position,
                  (formatting + PREDEFINED + 1) * (2 ^ EFFECTS))

\* the effect's bit is taken out of the run at place i
effect_off(c, i, effect) ==
    IF BitAnd(c.formatting[i], effect) # 0
    THEN [c EXCEPT !.formatting[i] = BitXor(@, effect)]
    ELSE c

\* the second loop of effect_range, "while i < len(self._positions) and
\* end > self._positions[i]", from the 1-based place i on, and what follows
\* it: the run at end
RECURSIVE effect_end(_, _, _, _)
effect_end(c, i, upto, effect) ==
    IF i <= Len(c.positions) /\ upto > c.positions[i]
    THEN effect_end(effect_off(c, i, effect), i + 1, upto, effect)
    ELSE IF upto > c.maxpos
         THEN [c EXCEPT !.positions = Append(@, upto),
                        !.formatting = Append(@, effect),
                        !.maxpos = upto]
    ELSE IF i > Len(c.positions) THEN [c EXCEPT !.err = TRUE]
    ELSE IF c.positions[i] = upto
         THEN [c EXCEPT !.formatting[i] = BitOr(@, effect)]
         ELSE [c EXCEPT !.positions = InsertAt(@, i, upto),
                        !.formatting = InsertAt(@, i, effect)]

\* effect_range for a start not beyond _maxpos, i being where the first
\* loop stopped: the run at start, then the rest
effect_start(c, start, upto, effect, i) ==
    IF i > Len(c.positions) THEN [c EXCEPT !.err = TRUE]
    ELSE effect_end(IF c.positions[i] = start
                    THEN [c EXCEPT !.formatting[i] = BitOr(@, effect)]
                    ELSE [c EXCEPT !.positions = InsertAt(@, i, start),
                                   !.formatting = InsertAt(@, i, effect)],
                    i + 1, upto, effect)

\* effect_range once start and end are offsets from the front
effect_span(c, start, upto, effect) ==
    IF start >= upto THEN c
    ELSE IF start > c.maxpos
         THEN [c EXCEPT !.positions = @ \o <<start, upto>>,
                        !.formatting = @ \o <<effect, effect>>,
                        !.maxpos = upto]
         ELSE effect_start(c, start, upto, effect,
                           WhileBelow(c.positions, start, 1))

\* Coloring.effect_range(start, end, formatting), upto being end; an end of
\* 0 is the end of the text
effect_range(c, start, upto, formatting) ==
    effect_span(c,
                IF start < 0 THEN Len(c.str) + start ELSE start,
                IF upto <= 0 THEN Len(c.str) + upto ELSE upto,
                2 ^ formatting)

\* the positions of other behind a text of n characters
shifted(positions, n) == [i \in 1..Len(positions) |-> positions[i] + n]

\* Coloring.__add__(other) for a Coloring: a first run of other at _maxpos
\* is merged with the last run; _maxpos is set in that case only
Coloring_add(c, other) ==
    IF other.positions # <<>> /\ other.positions[1] + Len(c.str) = c.maxpos
    THEN IF c.formatting = <<>> THEN [c EXCEPT !.err = TRUE]
         ELSE [c EXCEPT
                  !.formatting =
                      Front(@)
                      \o <<BitXor(other.formatting[1],
                                  BitAnd(c.formatting[Len(c.formatting)],
                                         effects_bits))>>
                      \o Tail(other.formatting),
                  !.positions = Front(@) \o shifted(other.positions, Len(c.str)),
                  !.maxpos = Len(c.str) + other.maxpos,
                  !.str = @ \o other.str]
    ELSE [c EXCEPT !.formatting = @ \o other.formatting,
                   !.positions = @ \o shifted(other.positions, Len(c.str)),
                   !.str = @ \o other.str]

\* last_effect of __format__ when the character at offset k is written: the
\* effect bits of the runs up to k, from place i on, under running XOR
RECURSIVE format_effect(_, _, _)
format_effect(c, i, k) ==
    IF i > Len(c.positions) \/ c.positions[i] > k THEN 0
    ELSE BitXor(BitAnd(c.formatting[i], effects_bits), format_effect(c, i + 1, k))

\* "\x1b[" code "m", character by character
Escape(code) == <<ESC, "[">> \o code \o <<"m">>
CLEAR_FORMATTING == Escape(<<>>)
\* the ideographic space of _LINE_BREAKING
IDEOGRAPHIC_SPACE == "IDSP"
_LINE_BREAKING == {"-", " ", IDEOGRAPHIC_SPACE}
\* colors.colors and colors.effects as _ColorManager.__init__ leaves them
colors ==
    <<Escape(<<"3", "9", ";", "2", "2", ";", "4", "9">>),
      Escape(<<"3", "1", ";", "2", "2", ";", "4", "7">>),
      Escape(<<"3", "1", ";", "2", "2", ";", "4", "9">>),
      Escape(<<"3", "2", ";", "2", "2", ";", "4", "9">>),
      Escape(<<"3", "3", ";", "2", "2", ";", "4", "9">>)>>
effects ==
    <<<<Escape(<<"7">>), Escape(<<"2", "7">>)>>,
      <<Escape(<<"4">>), Escape(<<"2", "4">>)>>>>

\* (1 << i) & n
HasBit(n, i) == (n \div (2 ^ i)) % 2 = 1

\* the effects part of _continue_formatting, from effect i on: for each
\* effect of next_effect its "off" if last_effect has it, its "on" if not
RECURSIVE effect_codes(_, _, _)
effect_codes(i, last_effect, next_effect) ==
    IF i >= EFFECTS THEN <<>>
    ELSE (IF HasBit(next_effect, i)
          THEN effects[i + 1][IF HasBit(last_effect, i) THEN 2 ELSE 1]
          ELSE <<>>)
         \o effect_codes(i + 1, last_effect, next_effect)

\* colors._continue_formatting
_continue_formatting(last_color, last_effect, next_effect) ==
    (IF last_color > 0 THEN colors[last_color] ELSE <<>>)
    \o effect_codes(0, last_effect, next_effect)

\* string[a:b] for 0 <= a, and ' ' * n
Slice(string, a, b) == SubSeq(string, a + 1, b)
Spaces(n) == [i \in 1..n |-> " "]
\* ord(j) < 32
is_control(j) == j \in {"\t", "\n", "\r", ESC}

\* breaklines at the run of formatting form that sits at pos: the text up
\* to pos goes to the line, then the run's escapes if the line has room
break_run(c, b, pos, color, next_effect) ==
    [b EXCEPT
        !.line_buffer =
            @ \o Slice(c.str, b.start, pos)
              \o (IF b.space > 0
                  THEN _continue_formatting(color, b.last_effect, next_effect)
                  ELSE <<>>),
        !.start = pos,
        !.last_color = color,
        !.format_pos = @ + 1,
        !.get_format = (b.format_pos + 1 # Len(c.positions)),
        !.last_effect = BitXor(@, next_effect)]

\* "if get_format and pos == self._positions[format_pos]"
break_format(c, b, pos) ==
    IF b.get_format /\ pos = c.positions[b.format_pos + 1]
    THEN break_run(c, b, pos,
                   IF c.formatting[b.format_pos + 1] \div (2 ^ EFFECTS) # 0
                   THEN c.formatting[b.format_pos + 1] \div (2 ^ EFFECTS)
                   ELSE b.last_color,
                   BitAnd(c.formatting[b.format_pos + 1], effects_bits))
    ELSE b

\* a tab at pos: padded out with the outdent's width in spaces
break_tab(c, b, pos, outdent_len) ==
    [b EXCEPT
        !.line_buffer = @ \o Slice(c.str, b.start, pos)
                          \o Spaces(Min(outdent_len, b.space)),
        !.start = pos + 1]

\* a CR or LF at pos: the line ends with a space in its place
break_newline(c, b, pos, length, outdent, outdent_len, keep_empty) ==
    [b EXCEPT
        !.broken =
            IF keep_empty \/ b.space # length - outdent_len
            THEN Append(@, b.line_buffer \o Slice(c.str, b.start, pos)
                             \o <<" ">> \o CLEAR_FORMATTING)
            ELSE @,
        !.line_buffer =
            outdent \o _continue_formatting(b.last_color, 0, b.last_effect),
        !.start = pos + 1,
        !.lastcol = 0,
        !.space = length - outdent_len]

\* break_word that starts the next line one character late
break_wordSkip(c, b, pos, lenj, length, outdent, outdent_len) ==
    IF b.space > 0 THEN b
    ELSE [b EXCEPT
             !.broken = Append(@, b.line_buffer \o Slice(c.str, b.start, pos)
                                    \o CLEAR_FORMATTING),
             !.line_buffer = outdent,
             !.start = pos + 1,
             !.lastcol = 0,
             !.space = length - outdent_len - lenj]

\* "if space <= 0": the line is broken after a recent breaking character,
\* or in the word
break_word(c, b, pos, lenj, length, outdent, outdent_len) ==
    IF b.space > 0 THEN b
    ELSE IF 0 < b.lastcol /\ b.lastcol < length \div 2
    THEN [b EXCEPT
             !.broken = Append(@, b.line_buffer \o CLEAR_FORMATTING),
             !.line_buffer =
                 outdent \o _continue_formatting(b.last_color, 0, b.last_effect),
             !.lastcol = 0,
             !.space = length - outdent_len - (lenj + b.lastcol)]
    ELSE [b EXCEPT
             !.broken = Append(@, b.line_buffer \o Slice(c.str, b.start, pos)
                                    \o CLEAR_FORMATTING),
             !.line_buffer =
                 outdent \o _continue_formatting(b.last_color, 0, b.last_effect),
             !.start = pos,
             !.lastcol = 0,
             !.space = length - outdent_len - lenj]

\* "if j in _LINE_BREAKING and space > 0", space being counted down already
break_after(c, b, pos) ==
    IF c.str[pos + 1] \in _LINE_BREAKING /\ b.space > 0
    THEN [b EXCEPT !.line_buffer = @ \o Slice(c.str, b.start, pos + 1),
                   !.start = pos + 1,
                   !.lastcol = b.space]
    ELSE b

\* "space -= lenj" and what follows it in the loop
break_count(c, b, pos, lenj, length, outdent, outdent_len) ==
    break_word(c, break_after(c, [b EXCEPT !.space = @ - lenj], pos),
               pos, lenj, length, outdent, outdent_len)

\* the loop body of breaklines after the run at pos is handled
break_char(c, b, pos, length, outdent, outdent_len, keep_empty) ==
    IF c.str[pos + 1] = "\t"
    THEN break_count(c, break_tab(c, b, pos, outdent_len), pos, outdent_len,
                     length, outdent, outdent_len)
    ELSE IF c.str[pos + 1] \in {"\r", "\n"}
    THEN break_newline(c, b, pos, length, outdent, outdent_len, keep_empty)
    ELSE IF is_control(c.str[pos + 1]) THEN b
    ELSE break_count(c, b, pos, wcwidth(c.str[pos + 1]),
                     length, outdent, outdent_len)

\* "empty the buffer one last time"
break_last(c, b, length, outdent_len, keep_empty) ==
    IF keep_empty
       \/ b.space # length - outdent_len
                     + collen(Slice(c.str, b.start, Len(c.str)))
    THEN Append(b.broken, b.line_buffer \o Slice(c.str, b.start, Len(c.str))
                            \o CLEAR_FORMATTING)
    ELSE b.broken

\* the loop of breaklines from pos on; start never passes the end of the
\* text, and looking at it has b evaluated before the next character is
RECURSIVE break_from(_, _, _, _, _, _, _)
break_from(c, b, pos, length, outdent, outdent_len, keep_empty) ==
    IF pos >= Len(c.str) \/ b.start > Len(c.str)
    THEN break_last(c, b, length, outdent_len, keep_empty)
    ELSE break_from(c,
                    break_char(c, break_format(c, b, pos), pos,
                               length, outdent, outdent_len, keep_empty),
                    pos + 1, length, outdent, outdent_len, keep_empty)

\* Coloring.breaklines(length, outdent, keep_empty)
breaklines(c, length, outdent, keep_empty) ==
    break_from(c,
               [broken |-> <<>>, line_buffer |-> <<>>, start |-> 0,
                lastcol |-> 0, space |-> length, format_pos |-> 0,
                get_format |-> (c.positions # <<>>),
                last_color |-> 0, last_effect |-> 0],
               0, length, outdent, collen(outdent), keep_empty)

(* -------------------- JustifiedColoring (display.py) ------------------- *)
\* JustifiedColoring._ELLIPSIS, one column wide
_ELLIPSIS == "ELLIPSIS"
\* reversed(string), string[a:b] for any b, and frozenset(list)
Reversed(string) == [i \in 1..Len(string) |-> string[Len(string) + 1 - i]]
PySlice(string, a, b) == SubSeq(string, a + 1, Min(b, Len(string)))
frozenset(list) == {list[i] : i \in 1..Len(list)}

\* columnslice from the 1-based place i on, trace columns passed
RECURSIVE columnslice_from(_, _, _, _, _)
columnslice_from(string, i, trace, escape, width) ==
    IF i > Len(string) THEN Max(Len(string), 1)
    ELSE IF ~(string[i] = ESC \/ escape)
         THEN IF trace + Max(0, wcwidth(string[i])) > width THEN i - 1
              ELSE columnslice_from(string, i + 1,
                                    trace + Max(0, wcwidth(string[i])),
                                    FALSE, width)
         ELSE columnslice_from(string, i + 1, trace, ~isalpha(string[i]), width)
columnslice(string, width) == columnslice_from(string, 1, 0, FALSE, width)

\* an entry of places in _justify: a run, the (left, None) entry that starts
\* the omission, or an entry whose form is an entry itself ("form =
\* places[i]")
Place(pos, form, is) == [pos |-> pos, form |-> form, is |-> is]
places_of(c) ==
    [i \in 1..Min(Len(c.positions), Len(c.formatting)) |->
        Place(c.positions[i], c.formatting[i], "run")]

\* "while i < len(self._positions) and self._positions[i] < right: i += 1"
\* from the 0-based i on
RECURSIVE WhileLeftOf(_, _, _)
WhileLeftOf(positions, i, right) ==
    IF i < Len(positions) /\ positions[i + 1] < right
    THEN WhileLeftOf(positions, i + 1, right)
    ELSE i

\* places with the entries of the omission put in: (left, None) at the
\* 0-based i, and (right, form) behind where the loop stopped
places_omitting(c, left, right, i, stopped) ==
    InsertAt(InsertAt(places_of(c), i + 1, Place(left, 0, "omit")),
             stopped + 2,
             Place(right, 0, IF stopped > i THEN "pair" ELSE "run"))

\* the loop body of _justify for a run that is written
justify_run(c, r, pos, form, right) ==
    [r EXCEPT
        !.ret = @ \o (IF ~(r.tracker < right /\ right = pos)
                      THEN PySlice(c.str, r.tracker, pos) ELSE <<>>)
                  \o _continue_formatting(form \div (2 ^ EFFECTS),
                                          r.last_effect,
                                          BitAnd(form, effects_bits)),
        !.running_length = @ + (IF ~(r.tracker < right /\ right = pos)
                                THEN collen(PySlice(c.str, r.tracker, pos))
                                ELSE 0),
        !.tracker = pos,
        !.last_effect = BitXor(@, BitAnd(form, effects_bits))]

\* "for pos, form in places" from the 1-based place k on; err is the
\* TypeError of "form & colors.effects_bits" for a form that is an entry
RECURSIVE justify_places(_, _, _, _, _, _)
justify_places(c, places, k, left, right, r) ==
    IF k > Len(places) \/ r.err THEN r
    ELSE IF places[k].is = "omit"
    THEN justify_places(c, places, k + 1, left, right,
             [r EXCEPT
                 !.ret = @ \o PySlice(c.str, r.tracker, left) \o <<_ELLIPSIS>>,
                 !.running_length =
                     @ + collen(PySlice(c.str, r.tracker, left)
                                \o <<_ELLIPSIS>>)])
    ELSE IF left < places[k].pos /\ places[k].pos < right
    THEN justify_places(c, places, k + 1, left, right, r)
    ELSE IF places[k].is = "pair"
    THEN [r EXCEPT !.err = TRUE]
    ELSE justify_places(c, places, k + 1, left, right,
             justify_run(c, r, places[k].pos, places[k].form, right))

\* the end of _justify: the rendering and the columns it takes
justify_rest(c, r) ==
    [display |-> r.ret \o PySlice(c.str, r.tracker, Len(c.str)),
     room |-> collen(PySlice(c.str, r.tracker, Len(c.str))) + r.running_length,
     err |-> r.err]

\* _justify once left and right are known
justify_between(c, places, left, right) ==
    justify_rest(c, justify_places(c, places, 1, left, right,
                     [ret |-> <<>>, tracker |-> 0, last_effect |-> 0,
                      running_length |-> 0, err |-> FALSE]))

\* the left end of the omission and the entries for it
justify_omitting(c, left, right) ==
    justify_between(c,
        places_omitting(c, left, right,
            Cardinality({k \in 1..Len(c.positions) : c.positions[k] < left}),
            WhileLeftOf(c.positions,
                Cardinality({k \in 1..Len(c.positions) : c.positions[k] < left}),
                right)),
        left, right)

\* _justify with right as first computed
justify_right(c, total, right) ==
    IF right <= (Len(c.str) \div 2) + 1
    THEN justify_between(c, places_of(c), Len(c.str) + 1, Len(c.str) + 1)
    ELSE justify_omitting(c, columnslice(c.str, (total + 1) \div 2), right)

\* JustifiedColoring._justify(total / 2)
_justify(c, total) ==
    IF c.str = <<>> THEN [display |-> <<>>, room |-> 0, err |-> FALSE]
    ELSE justify_right(c, total,
             Len(c.str) + 1 - columnslice(Reversed(c.str), total \div 2))

\* JustifiedColoring.add_indicator(sub, color, effect) on the record that
\* holds the Coloring; None is a color or an effect left out
add_indicator(j, sub, color, effect) ==
    IF sub = <<>> THEN j
    ELSE [j EXCEPT !.indicator =
             <<sub,
               (IF color # None THEN colors[color + PREDEFINED + 1] ELSE <<>>)
               \o (IF effect # None THEN effects[effect + 1][1] ELSE <<>>)>>]

\* hash((self, length, justchar, ensure_indicator))
memo_hash(j, length, justchar, ensure_indicator) ==
    <<j.c.str, j.indicator, frozenset(j.c.positions),
      frozenset(j.c.formatting), length, justchar, ensure_indicator>>

\* the indicator as justify writes it into room columns
justify_indicator(sub, color, columns, ensure, room) ==
    IF ensure = 0 THEN [text |-> <<>>, columns |-> 0]
    ELSE IF columns > ensure
    THEN IF columnslice(sub, room - 2) < Len(sub)
         THEN [text |-> color \o PySlice(sub, 0, columnslice(sub, room - 2))
                              \o <<_ELLIPSIS>>,
               columns |-> collen(PySlice(sub, 0, columnslice(sub, room - 2))
                                  \o <<_ELLIPSIS>>)]
         ELSE [text |-> color \o PySlice(sub, 0, columnslice(sub, room - 2)),
               columns |-> collen(PySlice(sub, 0, columnslice(sub, room - 2)))]
    ELSE [text |-> color \o sub, columns |-> columns]

\* the end of justify: the rendering is stored with its arguments' hash
justify_store(j, new_hash, length, justchar, d, ind) ==
    IF d.err THEN [j EXCEPT !.c.err = TRUE]
    ELSE [j EXCEPT
             !.memoargs = new_hash,
             !.rendered = d.display
                          \o [i \in 1..(length - d.room - ind.columns) |-> justchar]
                          \o ind.text \o CLEAR_FORMATTING]

\* justify with ensure_indicator cut to the indicator's columns
justify_ensured(j, new_hash, length, justchar, ensure, d) ==
    justify_store(j, new_hash, length, justchar, d,
        IF j.indicator = <<>> THEN [text |-> <<>>, columns |-> 0]
        ELSE justify_indicator(j.indicator[1], j.indicator[2],
                               collen(j.indicator[1]), ensure,
                               length - d.room))

\* justify when the stored rendering is not used
justify_anew(j, new_hash, length, justchar, ensure) ==
    justify_ensured(j, new_hash, length, justchar, ensure,
                    _justify(j.c, length - ensure))

\* JustifiedColoring.justify(length, justchar, ensure_indicator); the value
\* returned is the rendered field
justify(j, length, justchar, ensure_indicator) ==
    IF j.memoargs = memo_hash(j, length, justchar, ensure_indicator)
    THEN j
    ELSE justify_anew(j, memo_hash(j, length, justchar, ensure_indicator),
                      length, justchar,
                      IF j.indicator = <<>> THEN 0
                      ELSE Min(ensure_indicator, collen(j.indicator[1])))

\* longest text of a Coloring that is coloured
MaxColLen == 3
\* most runs a Coloring is followed with
MaxRuns == 4

\* a text of n letters
Letter(n) == [i \in 1..n |-> "a"]
\* the effects defined, by number
Effects == 0..(EFFECTS - 1)
\* colors.raw_num of two of the predefined colours
Palette == {0 - PREDEFINED, 2 - PREDEFINED}
\* the text offsets followed
Offsets == 0..MaxColLen

\* a Coloring with what the model keeps of its calls: for each effect the
\* parity, offset by offset, of the spans effect_range was called with and
\* the effects it was called for; the lines of the last breaklines call and
\* its arguments; the indicator, the stored rendering and its hash of a
\* JustifiedColoring, with the last justify call
ColorState(c) ==
    [c |-> c,
     cover |-> [bit \in Effects |-> [k \in Offsets |-> 0]],
     bits |-> {},
     called |-> FALSE, broken |-> <<>>, length |-> 0, outdent |-> <<>>,
     keep_empty |-> TRUE,
     indicator |-> <<>>, memoargs |-> <<>>, rendered |-> <<>>,
     justified |-> FALSE, args |-> <<>>, fresh |-> FALSE, made |-> <<>>]

(* ------- the event loop: futures, tasks and painting (base.py) --------- *)
\* the overlays the loop is followed with: the ChatOverlay, with its
\* timestamp loop and no callback, and a ListOverlay with a callback
LoopOverlays == {"chat", "list"}
\* FutureOverlay._callback is set
has_callback(o) == o = "list"
\* the FutureOverlay objects built: those and a plain TextOverlay, which is
\* isolated and has no callback
FutureOverlays == LoopOverlays \cup {"text"}

\* the lines Screen keeps below the overlays
RESERVE_LINES == 3
\* the guessed terminal height of Screen.__init__
SCREEN_HEIGHT == 30
\* the sizes getmaxyx reports: a full terminal, one that leaves two lines
\* to the overlays (too few for a ListOverlay), one without columns
Size(x, y) == [x |-> x, y |-> y]
Sizes ==
    {Size(SCREEN_WIDTH, SCREEN_HEIGHT + RESERVE_LINES),
     Size(SCREEN_WIDTH, 2 + RESERVE_LINES),
     Size(0, SCREEN_HEIGHT + RESERVE_LINES)}
NoSize == Size(None, None)

\* most display runs counted in one dispatch turn
MaxCount == 2

\* a handle in the loop's ready queue: the done callback _new_callback of
\* o's future or the wake-up of a task suspended in "await o.result" or
\* "await o.exit" (with the future's outcome), a task of Screen.display, a
\* task of Screen.resize (the size it read and the stack position it goes
\* on from), a task of Command._run (the command), the read-loop Manager.run
Handle(kind, o, outcome, size, i) ==
    [kind |-> kind, o |-> o, outcome |-> outcome, size |-> size, i |-> i]
FutureHandle(kind, o, outcome) == Handle(kind, o, outcome, NoSize, 0)
Task(kind) == Handle(kind, "", "", NoSize, 0)

\* FutureOverlay.__init__ for every overlay, ChatOverlay.__init__: a pending
\* future with _new_callback attached, nothing awaiting it, no timer task;
\* value holds the result the input line gave the future last, if any
FuturesInit ==
    [future |-> [o \in FutureOverlays |-> "pending"],
     armed |-> [o \in FutureOverlays |-> TRUE],
     waiting |-> [o \in FutureOverlays |-> <<>>],
     called |-> [o \in FutureOverlays |-> "never"],
     value |-> [o \in FutureOverlays |-> <<>>],
     push_task |-> "none",
     live |-> 0]

\* the loop and the size of the Screen as Screen.__init__ leaves them, the
\* read-loop not started; with them what the model keeps of the run: the
\* unit getch returned last, the size of the last resize event dispatched
\* and the size each overlay in the stack was built for or last given by
\* its resize hook, whether a repaint was requested in the dispatch turn
\* and how often display ran in it, how often display had run in the turn
\* before when it ended (None if no repaint was requested in it),
\* whether a DisplayException has suppressed painting, the outcome of the
\* last display run, the last status notification
LoopInit ==
    [ready |-> <<>>, asleep |-> <<>>, main |-> "ended", unit |-> "none",
     term |-> Size(SCREEN_WIDTH, SCREEN_HEIGHT + RESERVE_LINES),
     width |-> SCREEN_WIDTH, height |-> SCREEN_HEIGHT,
     osize |-> [o \in FutureOverlays |-> NoSize], event |-> NoSize,
     requested |-> FALSE, displays |-> 0, closed |-> None,
     faulted |-> FALSE, paint |-> "none", blurb |-> "none"]

\* the program's state a call works on: the futures, the Screen, the loop
\* and the Messages
World(f, s, l, m) == [f |-> f, s |-> s, l |-> l, m |-> m]

\* loop.create_task and loop.call_soon
call_soon(w, h) == [w EXCEPT !.l.ready = Append(@, h)]

\* Screen.schedule_display
schedule_display(w) ==
    call_soon([w EXCEPT !.l.requested = TRUE], Task("display"))

\* Screen.schedule_resize
schedule_resize(w) == call_soon(w, Handle("resize", "", "", NoSize, -1))

\* Blurb.push
push(w, blurb) == [w EXCEPT !.l.blurb = blurb]

(* ------------------------- FutureOverlay ------------------------------- *)
\* the wake-ups of the tasks awaiting a future, in the order they began
Wakeups(waiting, o, outcome) ==
    [i \in 1..Len(waiting) |-> FutureHandle(waiting[i], o, outcome)]

\* Future.set_result and Future.cancel of a pending future: its done
\* callbacks are handed to call_soon in the order they were added
finish(w, o, outcome) ==
    [w EXCEPT !.f.future[o] = outcome,
              !.l.ready = @ \o (IF w.f.armed[o]
                                THEN <<FutureHandle("_new_callback", o,
                                                    outcome)>>
                                ELSE <<>>)
                            \o Wakeups(w.f.waiting[o], o, outcome),
              !.f.waiting[o] = <<>>,
              !.f.armed[o] = FALSE]

\* FutureOverlay.remove up to super().remove(): cancels a future not done
FutureOverlay_remove(w, o) ==
    IF w.f.future[o] = "pending" THEN finish(w, o, "cancelled") ELSE w

\* ChatOverlay.remove up to super().remove(): cancels the task _push_task
\* refers to; the stop of the screen at index 0 is in remove
ChatOverlay_remove(w, o) ==
    IF o = "chat" /\ w.f.push_task = "live"
    THEN [w EXCEPT !.f.push_task = "cancelled", !.f.live = @ - 1]
    ELSE w

\* Screen.add_overlay and Screen.pop_overlay end with schedule_display
scheduled(w, changed) == IF changed THEN schedule_display(w) ELSE w

\* overlay.remove() along the classes of o; Screen.pop_overlay ends with
\* schedule_display
overlay_remove(w, o) ==
    scheduled(FutureOverlay_remove(
                  ChatOverlay_remove([w EXCEPT !.s = remove(w.s, o),
                                               !.l.osize[o] = NoSize], o), o),
              w.s.index[o] # None)

\* ChatOverlay.add after super().add()
ChatOverlay_add(w, o) ==
    IF o = "chat"
    THEN [w EXCEPT !.f.push_task = "live", !.f.live = @ + 1]
    ELSE w

\* an overlay new in the stack draws with the size the Screen holds
built(w, o) ==
    IF w.s.index[o] = None
    THEN Size(w.l.width, w.l.height + RESERVE_LINES)
    ELSE w.l.osize[o]

\* overlay.add() along the classes of o; Screen.add_overlay ends with
\* schedule_display; ChatOverlay.add creates a task of _time_loop on every
\* call and keeps the last in _push_task
overlay_add(w, o) ==
    ChatOverlay_add(scheduled([w EXCEPT !.s = add(w.s, o),
                                        !.l.osize[o] = built(w, o)],
                              w.s.index[o] = None),
                    o)

\* OverlayBase.run_key: a handler that returned -1 has the overlay removed
returned(w, o, minus_one) == IF minus_one THEN overlay_remove(w, o) ELSE w

\* FutureOverlay.set_result, the handler of Enter (the overlay is removed on
\* its return of -1) and of Tab (override 0: the overlay stays)
set_result(w, o, key) ==
    returned(IF w.f.future[o] = "pending" THEN finish(w, o, "done") ELSE w,
             o, key = "enter")

\* a new future that _new_callback is not attached to
rearmUnarmed(w, o) ==
    [w EXCEPT !.f.future[o] = "pending", !.f.armed[o] = FALSE,
              !.f.value[o] = <<>>]

\* a new future with _new_callback attached
rearm(w, o) ==
    [w EXCEPT !.f.future[o] = "pending", !.f.armed[o] = TRUE,
              !.f.value[o] = <<>>]

\* the end of _new_callback after _callback returned ret: the overlay is
\* removed, or a new future is made
called(w, o, ret) == IF ret THEN overlay_remove(w, o) ELSE rearm(w, o)

\* FutureOverlay._new_callback(fut): fut.result() raises CancelledError for
\* a cancelled future before _callback is entered; ret is what _callback
\* returns
_new_callback(w, o, outcome, ret) ==
    IF has_callback(o) /\ outcome = "done"
    THEN called([w EXCEPT !.f.called[o] = outcome], o, ret)
    ELSE rearm(w, o)

\* the rest of FutureOverlay.exit once the awaited future is done: after a
\* result _new_callback is taken off the future the overlay holds by then;
\* the overlay is removed in any case
exit(w, o, outcome) ==
    overlay_remove(IF outcome = "done" THEN [w EXCEPT !.f.armed[o] = FALSE]
                   ELSE w,
                   o)

\* a task reaches "await o.result" or "await o.exit": it is suspended on a
\* pending future and goes on at once with one that is done
await(w, o, kind) ==
    IF w.f.future[o] = "pending"
    THEN [w EXCEPT !.f.waiting[o] = Append(@, kind)]
    ELSE IF kind = "exit" THEN exit(w, o, w.f.future[o]) ELSE w

(* ---------------------- Screen.display, Screen.resize ------------------ *)
\* the overlay's __call__ raises DisplayException: a ListOverlay short of
\* rows (size) or of columns (maxx) inside its box
raises(o, width, height) ==
    o = "list" /\ (height - 2 < 1 \/ width - 2 < 3)

\* a resize event has been dispatched and the Screen or an overlay in the
\* stack does not hold its size yet
stale(w) ==
    /\ w.l.event # NoSize
    /\ \/ w.l.width # w.l.event.x
       \/ w.l.height # w.l.event.y - RESERVE_LINES
       \/ \E i \in 1..Len(w.s.ins) : w.l.osize[w.s.ins[i]] # w.l.event

\* Screen.display that leaves _candisplay alone on a DisplayException
displayKeepCan(w) ==
    LET w1 == [w EXCEPT !.l.displays = Min(@ + 1, MaxCount)]
    IN IF ~(w.s.active /\ w.s.candisplay /\ w.l.height > 0)
       THEN [w1 EXCEPT !.l.paint = "skipped"]
       ELSE IF \E i \in (w.s.last_replace + 1)..Len(w.s.ins) :
                   raises(w.s.ins[i], w.l.width, w.l.height)
            THEN [w1 EXCEPT !.l.faulted = TRUE, !.l.paint = "raised"]
            ELSE [w1 EXCEPT !.l.paint = IF stale(w) THEN "stale" ELSE "rows"]

\* Screen.display: the overlays from _last_replace up fill the lines, which
\* are written only if none raised; the outcome is kept in paint ("stale":
\* rows written while stale)
display(w) ==
    LET w1 == [w EXCEPT !.l.displays = Min(@ + 1, MaxCount)]
    IN IF ~(w.s.active /\ w.s.candisplay /\ w.l.height > 0)
       THEN [w1 EXCEPT !.l.paint = "skipped"]
       ELSE IF \E i \in (w.s.last_replace + 1)..Len(w.s.ins) :
                   raises(w.s.ins[i], w.l.width, w.l.height)
            THEN [w1 EXCEPT !.s.candisplay = FALSE, !.l.faulted = TRUE,
                            !.l.paint = "raised"]
            ELSE [w1 EXCEPT !.l.paint = IF stale(w) THEN "stale" ELSE "rows"]

\* the rest of Screen.resize once the loop over the stack is through:
\* Scrollable.setwidth raises DisplayException for a width of 0
resize_end(w, size) ==
    LET w1 == [w EXCEPT !.l.width = size.x,
                        !.l.height = size.y - RESERVE_LINES,
                        !.s.candisplay = TRUE]
    IN IF size.x <= 0
       THEN [w1 EXCEPT !.s.candisplay = FALSE, !.l.faulted = TRUE]
       ELSE display([w1 EXCEPT
                        !.s = update_input(
                                  NScrollable(w1.s, setwidth(w1.s.text, size.x))),
                        !.l.faulted = FALSE])

\* one run of a task of Screen.resize, from its start or from the sleep
\* after an overlay: the size is read at the start; the next overlay of the
\* stack has its resize hook (ChatOverlay.resize calls redo_lines) and the
\* task sleeps, or the stack is through
resize(w, h) ==
    LET size == IF h.i < 0 THEN w.l.term ELSE h.size
        i == Max(h.i, 0)
    IN IF i < Len(w.s.ins)
       THEN LET o == InsAt(w.s, i)
            IN [w EXCEPT !.l.osize[o] = size,
                         !.m = IF o = "chat" THEN redo_lines(@) ELSE @,
                         !.l.asleep = Append(@, Handle("resize", "", "", size,
                                                       i + 1))]
       ELSE resize_end(w, size)

(* ------------------------------ Command -------------------------------- *)
\* Command.CHAR_COMMAND
Command_CHAR == "/"
\* Command.commands: help and quit of base.py, and a third whose name
\* help is a prefix of
CommandNames ==
    [help |-> <<"h", "e", "l", "p">>,
     helpers |-> <<"h", "e", "l", "p", "e", "r", "s">>,
     quit |-> <<"q", "u", "i", "t">>]
commands == DOMAIN CommandNames

\* argsplit(string)[0]: the text up to the first space
FirstArg(string) ==
    LET spaces == {i \in 1..Len(string) : string[i] = " "}
    IN IF spaces = {} THEN string
       ELSE Take(string, (CHOOSE i \in spaces : \A j \in spaces : i <= j) - 1)

\* the commands whose name starts with the typed name
possible(string) ==
    {c \in commands : startswith(CommandNames[c], FirstArg(string))}

\* Command.run that takes the first of several matches
Command_runFirst(w, string) ==
    IF possible(string) = {}
    THEN push(w, "not found")
    ELSE call_soon(w, Handle("command", CHOOSE c \in possible(string) : TRUE,
                             "", NoSize, 0))

\* Command.run
Command_run(w, string) ==
    IF possible(string) = {}
    THEN push(w, "not found")
    ELSE IF Cardinality(possible(string)) > 1
         THEN push(w, "ambiguous")
         ELSE call_soon(w, Handle("command",
                                  CHOOSE c \in possible(string) : TRUE,
                                  "", NoSize, 0))

\* Screen.stop
stop(w) == [w EXCEPT !.s.active = FALSE]

\* Command._run: the command is called (quit stops the screen, help
\* returns a ListOverlay, which is added); fails: it raises an Exception,
\* which is reported
Command__run(w, name, fails) ==
    IF fails THEN push(w, "command failed")
    ELSE CASE name = "quit" -> stop(w)
           [] name = "help" -> overlay_add(w, "list")
           [] OTHER -> w

(* ---------------------- Screen.input, Manager.run ---------------------- *)
\* the units getch returns in the loop: ^w, KEY_RESIZE, ^l, Enter, ^C, a
\* bound key whose handler raises an Exception; "nul" is the 0 Screen.stop
\* pushes back, "none" is no input
LoopUnits == {"quit", "resize", "redraw", "enter", "cancel", "fault"}
\* the text in the Viewport when Enter arrives
Typed ==
    {<<"/", "h", "e">>, <<"/", "h", "e", "l", "p">>, <<"/", "q", " ", "a">>,
     <<"/", "a">>, <<"a">>}

\* what Screen.input leaves and the exception that escapes it
Dispatched(w, exc) == [w |-> w, exc |-> exc]

\* Screen.redraw_all
redraw_all(w) ==
    LET w1 == schedule_display(w)
    IN [w1 EXCEPT !.s = update_input(w1.s)]

\* _NScrollable.append_bytes for Enter with string in the Viewport of the
\* ChatOverlay: a command is run, other text is the result of the future;
\* the Viewport is cleared
append_bytes(w, string) ==
    IF string # <<>> /\ string[1] = Command_CHAR
    THEN Dispatched(Command_run(w, Tail(string)), "none")
    ELSE IF w.f.future["chat"] = "pending"
         THEN Dispatched(finish(w, "chat", "done"), "none")
         ELSE Dispatched(w, "InvalidStateError")

\* the handler of unit in the keys of overlay o
handler(w, o, unit, string) ==
    CASE unit = "fault" -> Dispatched(w, "Exception")
      [] unit = "resize" ->
             Dispatched(schedule_resize([w EXCEPT !.l.event = w.l.term]),
                        "none")
      [] unit = "redraw" -> Dispatched(redraw_all(w), "none")
      [] unit = "quit" -> Dispatched(overlay_remove(w, o), "none")
      [] unit = "enter" /\ o = "list" ->
             Dispatched(set_result(w, o, "enter"), "none")
      [] unit = "enter" /\ o = "chat" -> append_bytes(w, string)
      [] OTHER -> Dispatched(w, "none")

\* the keys of the loop's units bound in o.keys: ^w is unbound in the
\* ChatOverlay, 0 is bound nowhere
bound(o, unit) ==
    /\ unit # "nul"
    /\ unit = "quit" => "quit" \in keys(o)

\* the end of context.run_key(top, chars, do_input) once the handler of top
\* left d: OverlayBase.run_key returns 1 and Screen.input awaits the
\* display; ChatOverlay.run_key follows the falsy return of its handlers
\* with stop_select and update_input and returns False
loop_run_key(top, d) ==
    IF d.exc # "none" THEN d
    ELSE IF top = "chat"
         THEN Dispatched([d.w EXCEPT !.m = stop_select(@),
                                     !.s = update_input(@)],
                         "none")
         ELSE Dispatched(display(d.w), "none")

\* Screen.input once the unit is read and the sleep is over. Every overlay
\* of LoopOverlays has replace set, so the context is the top overlay and
\* the walk ends with it. OverlayBase.run_key returns 1 and the display is
\* awaited; ChatOverlay.run_key follows the falsy return of its handlers
\* with stop_select and update_input and returns False
Screen_input(w, unit, string) ==
    IF unit = "cancel" THEN Dispatched(stop(w), "none")
    ELSE IF w.s.ins = <<>> \/ w.s.last_replace < 0 THEN Dispatched(w, "none")
    ELSE IF w.s.last_replace >= Len(w.s.ins)
         THEN Dispatched(w, "IndexError")
    ELSE IF ~bound(InsAt(w.s, Len(w.s.ins) - 1), unit)
         THEN Dispatched(w, "none")
    ELSE loop_run_key(InsAt(w.s, Len(w.s.ins) - 1),
                      handler(w, InsAt(w.s, Len(w.s.ins) - 1), unit, string))

\* getch in Screen.input returns next (a resize event follows a change of
\* the terminal's size to size; the 0 pushed back by Screen.stop is read
\* first) and the read-loop sleeps; reading a unit ends one dispatch turn
\* and begins the next
getch(w, next, size) ==
    LET unit == IF ~w.s.active THEN "nul" ELSE next
        w1 == [w EXCEPT !.l.main = "asleep", !.l.unit = unit,
                        !.l.term = IF unit = "resize" THEN size ELSE @]
    IN IF unit = "none" THEN w1
       ELSE [w1 EXCEPT !.l.closed = IF w.l.requested THEN w.l.displays
                                    ELSE None,
                       !.l.requested = FALSE, !.l.displays = 0]

\* the loop of Manager.run goes round while the screen is active
again(w, next, size) ==
    IF w.s.active THEN getch(w, next, size)
    ELSE [w EXCEPT !.l.main = "ended", !.l.unit = "none"]

\* Manager.run that lets the exception of a handler end the loop
reportedNoCatch(d, next, size) ==
    IF d.exc # "none" THEN [d.w EXCEPT !.l.main = "ended", !.l.unit = "none"]
    ELSE again(d.w, next, size)

\* the try of Manager.run around Screen.input: an Exception that escapes
\* is reported
reported(d, next, size) ==
    again(IF d.exc # "none" THEN push(d.w, "Error occurred in key callback")
          ELSE d.w,
          next, size)

\* one turn of the loop of Manager.run, from the wake-up of the sleep in
\* Screen.input: with no unit read getch is polled again; a unit read is
\* dispatched
run(w, next, size, string) ==
    IF w.l.unit = "none" THEN getch(w, next, size)
    ELSE reported(Screen_input(w, w.l.unit, string), next, size)

\* the loop runs the handle h it took from its ready queue; the choices
\* left open are what _callback returns (ret), whether the command raises
\* (fails), and what getch finds (next, size, string)
run_handle(w, h, ret, fails, next, size, string) ==
    CASE h.kind = "_new_callback" -> _new_callback(w, h.o, h.outcome, ret)
      [] h.kind = "exit" -> exit(w, h.o, h.outcome)
      [] h.kind = "display" -> display(w)
      [] h.kind = "resize" -> resize(w, h)
      [] h.kind = "command" -> Command__run(w, h.o, fails)
      [] h.kind = "main" -> run(w, next, size, string)
      [] OTHER -> w

(* ------------------- the input line (_NScrollable) --------------------- *)
\* _NScrollable.ESCAPE_MAP; Enter is the code of "\n"
ESCAPE_MAP ==
    ("\n" :> "\n") @@ ("\t" :> "\t") @@ ("\\" :> "\\") @@ ("n" :> "\n")
        @@ ("t" :> "\t")

\* _NScrollable.isolated
NScrollable_isolated(s) == s.last_text >= 0 /\ isolated(InsAt(s, s.last_text))

\* _NScrollable.history_entry
history_entry(s, direction) ==
    IF NScrollable_isolated(s) THEN s
    ELSE LET r == IF direction < 0 THEN prevhist(s.history, s.text.str)
                  ELSE nexthist(s.history, s.text.str)
         IN NScrollable([s EXCEPT !.history = r.h], setstr(s.text, r.ret))

\* the newline branch of append_bytes (char == 10): the line is run as a
\* command or set as the result of last_text's future (set_result of a
\* future that is done raises InvalidStateError), goes to the history of a
\* line that is not isolated, and is cleared
newline(w) ==
    LET string == w.s.text.str
        iso == NScrollable_isolated(w.s)
        command == ~iso /\ string # <<>> /\ string[1] = Command_CHAR
        o == IF w.s.last_text >= 0 THEN InsAt(w.s, w.s.last_text) ELSE ""
    IN IF ~command /\ w.s.last_text >= 0 /\ w.f.future[o] # "pending"
       THEN Dispatched(w, "InvalidStateError")
       ELSE LET w1 == IF command THEN Command_run(w, Tail(string))
                      ELSE IF w.s.last_text >= 0
                           THEN [finish(w, o, "done")
                                    EXCEPT !.f.value[o] = <<string>>]
                           ELSE w
                w2 == IF ~iso
                      THEN [w1 EXCEPT !.s.history = History_append(@, string)]
                      ELSE w1
            IN Dispatched([w2 EXCEPT !.s = NScrollable(w2.s,
                                               Scrollable_clear(w2.s.text))],
                          "none")

\* _NScrollable.append_bytes
NScrollable_append_bytes(w, chars) ==
    LET escape == w.s.escape_mode
        w1 == [w EXCEPT !.s.escape_mode = FALSE]
        typed(new) == Dispatched([w1 EXCEPT !.s = NScrollable(w1.s,
                                      Scrollable_append(w1.s.text, new))],
                                 "none")
    IN IF Len(chars) = 1
       THEN IF escape /\ chars[1] \in DOMAIN ESCAPE_MAP
            THEN typed(<<ESCAPE_MAP[chars[1]]>>)
            ELSE IF chars[1] = "\\"
                 THEN Dispatched([w1 EXCEPT !.s.escape_mode = TRUE], "none")
                 ELSE IF chars[1] = "\n" THEN newline(w1)
                      ELSE typed(chars)
       ELSE typed(chars)

\* the end of context.run_key(top, chars, do_input) once the falsy handler
\* of the TextOverlay top left w: a ChatOverlay context calls stop_select
\* and update_input and returns what stop_select did, but 1 for another
\* overlay's key; OverlayBase.run_key returns 1; Screen.input awaits the
\* display after a truthy return
line_run_key(w, context, top) ==
    LET w1 == IF context = "chat"
              THEN [w EXCEPT !.m = stop_select(@), !.s = update_input(@)]
              ELSE w
    IN IF context = "chat" /\ top = "chat" /\ w.m.selector = 0 THEN w1
       ELSE display(w1)

\* Screen.input for a unit the TextOverlay on top of the stack handles:
\* text goes to append_bytes, the keys up and down to history_entry
line_input(w, key, chars) ==
    IF w.s.ins = <<>> \/ w.s.last_replace < 0 THEN Dispatched(w, "none")
    ELSE IF w.s.last_replace >= Len(w.s.ins)
         THEN Dispatched(w, "IndexError")
    ELSE IF ~isTextOverlay(InsAt(w.s, Len(w.s.ins) - 1))
         THEN Dispatched(w, "none")
    ELSE LET d == CASE key = "up" ->
                          Dispatched([w EXCEPT !.s = history_entry(@, 1)],
                                     "none")
                    [] key = "down" ->
                          Dispatched([w EXCEPT !.s = history_entry(@, -1)],
                                     "none")
                    [] OTHER -> NScrollable_append_bytes(w, chars)
         IN IF d.exc # "none" THEN d
            ELSE Dispatched(line_run_key(d.w, InsAt(w.s, w.s.last_replace),
                                         InsAt(w.s, Len(w.s.ins) - 1)),
                            "none")

(* --------------------- Messages: the state machine --------------------- *)
Mids(all) == {all[i].mid : i \in 1..Len(all)}

\* the other subsystems as constructed, for the specifications that leave
\* them alone
MessagesIdle == ms = MessagesInit /\ msg_count = 0
ViewportIdle == sc = Scrollable(TABLEN + 1, <<>>)
ScreenIdle == scr = ScreenInit
FuturesIdle == fo = FuturesInit
LoopIdle == lp = LoopInit
ColoringIdle == col = ColorState(Coloring(<<>>))
IterIdle == gen = NoGenerator

MsgInit ==
    /\ ms = MessagesInit
    /\ msg_count = 0
    /\ ViewportIdle
    /\ ScreenIdle
    /\ FuturesIdle
    /\ LoopIdle
    /\ ColoringIdle
    /\ IterIdle

\* ChatOverlay.msg_append with a new Message
MsgAppend ==
    \E h \in 0..MaxMsgHeight :
        /\ Len(ms.all) < MaxMsgs
        /\ msg_count < MaxMid
        /\ ms' = append(ms, Message(msg_count, h))
        /\ msg_count' = msg_count + 1
        /\ UNCHANGED <<gen, sc, scr, fo, lp, col>>

\* ChatOverlay.msg_prepend with a new Message
MsgPrepend ==
    \E h \in 0..MaxMsgHeight :
        /\ Len(ms.all) < MaxMsgs
        /\ msg_count < MaxMid
        /\ ms' = prepend(ms, Message(msg_count, h))
        /\ msg_count' = msg_count + 1
        /\ UNCHANGED <<gen, sc, scr, fo, lp, col>>

\* Messages.delete(test, delete_all)
MsgDelete ==
    \E mids \in SUBSET Mids(ms.all), delete_all \in BOOLEAN :
        /\ ms' = delete(ms, mids, delete_all)
        /\ UNCHANGED <<gen, msg_count, sc, scr, fo, lp, col>>

\* ChatOverlay.select_up -> Messages.up(amount)
MsgUp ==
    \E k \in 1..MaxAmount :
        LET r == up(ms, k)
        IN /\ ms' = r.m
           /\ UNCHANGED <<gen, msg_count, sc, scr, fo, lp, col>>

\* ChatOverlay.select_down -> Messages.down(amount)
MsgDown ==
    \E k \in 1..MaxAmount :
        LET r == down(ms, k)
        IN /\ ms' = r.m
           /\ UNCHANGED <<gen, msg_count, sc, scr, fo, lp, col>>

MsgNext == MsgAppend \/ MsgPrepend \/ MsgDelete \/ MsgUp \/ MsgDown

SpecMessages == MsgInit /\ [][MsgNext]_vars

\* the rows handed to an overlay by Screen.display: one per row of the
\* panel, nothing drawn yet
NoLines == [y \in 1..ScreenHeight |-> BlankRow]

\* ChatOverlay.__call__(lines) -> Messages.display(lines)
MsgDisplay ==
    /\ ms' = Messages_display(ms, NoLines).m
    /\ UNCHANGED <<gen, msg_count, sc, scr, fo, lp, col>>

ChatNext == MsgNext \/ MsgDisplay

\* the message log with the panel redrawn between the operations
SpecChat == MsgInit /\ [][ChatNext]_vars

\* ChatOverlay.select_top -> Messages.scroll_top
MsgScrollTop ==
    /\ ms' = scroll_top(ms).m
    /\ UNCHANGED <<gen, msg_count, sc, scr, fo, lp, col>>

\* ChatOverlay.redo_lines -> Messages.redo_lines
MsgRedoLines ==
    /\ ms' = redo_lines(ms)
    /\ UNCHANGED <<gen, msg_count, sc, scr, fo, lp, col>>

ScrollNext == ChatNext \/ MsgScrollTop \/ MsgRedoLines

\* the message log with jumps to the oldest message and redraws of all lines
SpecScroll == MsgInit /\ [][ScrollNext]_vars

(* --------------------- Scrollable: the state machine ------------------- *)
\* longest text held
MaxStrLen == 5
\* longest text inserted by one append or set by setstr
MaxText == 2
\* largest distance passed to movepos
MaxDelta == 2
\* widest viewport; the narrowest that can be built is _TABLEN + 1
MaxWidth == 5
\* how far below zero the display offset is followed
MaxUnderflow == 1
\* how far below MaxWidth setwidth may shrink the viewport
MaxShrink == 2

Strings(n) == UNION {[1..k -> Chars] : k \in 0..n}
Widths == (TABLEN + 1)..MaxWidth
SetWidths == (MaxWidth - MaxShrink)..MaxWidth

\* Scrollable(width): the empty viewport
ScInitEmpty ==
    /\ \E w \in Widths : sc = Scrollable(w, <<>>)
    /\ MessagesIdle
    /\ ScreenIdle
    /\ FuturesIdle
    /\ LoopIdle
    /\ ColoringIdle
    /\ IterIdle

\* Scrollable(width, string)
ScInit ==
    /\ \E w \in Widths, string \in Strings(MaxStrLen) : sc = Scrollable(w, string)
    /\ MessagesIdle
    /\ ScreenIdle
    /\ FuturesIdle
    /\ LoopIdle
    /\ ColoringIdle
    /\ IterIdle

\* each call is taken while the text stays within MaxStrLen and the display
\* offset, which movepos can lower without end once the cursor is out of the
\* window, within MaxUnderflow below zero
InBounds(next) == Len(next.str) <= MaxStrLen /\ next.disp >= 0 - MaxUnderflow

ScAppend ==
    \E new \in Strings(MaxText) :
        LET next == Scrollable_append(sc, new)
        IN /\ InBounds(next)
           /\ sc' = next
           /\ UNCHANGED <<gen, ms, msg_count, scr, fo, lp, col>>

ScMovepos ==
    \E dist \in (0 - MaxDelta)..MaxDelta :
        LET next == movepos(sc, dist)
        IN /\ InBounds(next)
           /\ sc' = next
           /\ UNCHANGED <<gen, ms, msg_count, scr, fo, lp, col>>

ScHome ==
    LET next == home(sc)
    IN /\ InBounds(next)
       /\ sc' = next
       /\ UNCHANGED <<gen, ms, msg_count, scr, fo, lp, col>>

ScEnd ==
    LET next == end(sc)
    IN /\ InBounds(next)
       /\ sc' = next
       /\ UNCHANGED <<gen, ms, msg_count, scr, fo, lp, col>>

ScWordback ==
    LET next == wordback(sc)
    IN /\ InBounds(next)
       /\ sc' = next
       /\ UNCHANGED <<gen, ms, msg_count, scr, fo, lp, col>>

ScWordnext ==
    LET next == wordnext(sc)
    IN /\ InBounds(next)
       /\ sc' = next
       /\ UNCHANGED <<gen, ms, msg_count, scr, fo, lp, col>>

ScBackspace ==
    LET next == backspace(sc)
    IN /\ InBounds(next)
       /\ sc' = next
       /\ UNCHANGED <<gen, ms, msg_count, scr, fo, lp, col>>

ScDelchar ==
    LET next == delchar(sc)
    IN /\ InBounds(next)
       /\ sc' = next
       /\ UNCHANGED <<gen, ms, msg_count, scr, fo, lp, col>>

ScDelword ==
    LET next == delword(sc)
    IN /\ InBounds(next)
       /\ sc' = next
       /\ UNCHANGED <<gen, ms, msg_count, scr, fo, lp, col>>

ScDelnextword ==
    LET next == delnextword(sc)
    IN /\ InBounds(next)
       /\ sc' = next
       /\ UNCHANGED <<gen, ms, msg_count, scr, fo, lp, col>>

ScClear ==
    LET next == Scrollable_clear(sc)
    IN /\ InBounds(next)
       /\ sc' = next
       /\ UNCHANGED <<gen, ms, msg_count, scr, fo, lp, col>>

ScSetstr ==
    \E new \in Strings(MaxText) :
        LET next == setstr(sc, new)
        IN /\ InBounds(next)
           /\ sc' = next
           /\ UNCHANGED <<gen, ms, msg_count, scr, fo, lp, col>>

ScSetwidth ==
    \E new \in SetWidths :
        LET next == setwidth(sc, new)
        IN /\ InBounds(next)
           /\ sc' = next
           /\ UNCHANGED <<gen, ms, msg_count, scr, fo, lp, col>>

ScComplete ==
    LET next == complete(sc)
    IN /\ InBounds(next)
       /\ sc' = next
       /\ UNCHANGED <<gen, ms, msg_count, scr, fo, lp, col>>

ScBackcomplete ==
    LET next == backcomplete(sc)
    IN /\ InBounds(next)
       /\ sc' = next
       /\ UNCHANGED <<gen, ms, msg_count, scr, fo, lp, col>>

ScShow ==
    LET next == show(sc)
    IN /\ InBounds(next)
       /\ sc' = next
       /\ UNCHANGED <<gen, ms, msg_count, scr, fo, lp, col>>

ScMoveNext == ScAppend \/ ScMovepos

ScNext ==
    \/ ScAppend \/ ScMovepos \/ ScHome \/ ScEnd \/ ScWordback \/ ScWordnext
    \/ ScBackspace \/ ScDelchar \/ ScDelword \/ ScDelnextword \/ ScClear
    \/ ScSetstr \/ ScSetwidth \/ ScComplete \/ ScBackcomplete \/ ScShow

\* a fresh viewport driven by append and movepos only
SpecViewportMoves == ScInitEmpty /\ [][ScMoveNext]_vars
\* a viewport built on any text and driven by every mutation
SpecViewport == ScInit /\ [][ScNext]_vars

(* ------------------------ Screen: the state machine -------------------- *)
\* most characters typed into the Screen's Viewport
MaxTyped == 2

ScrInit ==
    /\ ScreenIdle
    /\ MessagesIdle
    /\ ViewportIdle
    /\ FuturesIdle
    /\ LoopIdle
    /\ ColoringIdle
    /\ IterIdle

\* overlay.add()
ScrAdd ==
    \E o \in Overlays :
        /\ scr' = add(scr, o)
        /\ UNCHANGED <<gen, ms, msg_count, sc, fo, lp, col>>

\* overlay.remove()
ScrRemove ==
    \E o \in Overlays :
        /\ scr' = remove(scr, o)
        /\ UNCHANGED <<gen, ms, msg_count, sc, fo, lp, col>>

\* Manager.run: await screen.input() while the screen is active; an
\* IndexError escaping input leaves the screen as it was
ScrInput ==
    \E unit \in Units :
        LET r == input(scr, unit)
        IN /\ scr.active
           /\ unit = "print" => Len(scr.text.str) < MaxTyped
           /\ scr' = r.s
           /\ ms' = IF r.deselect THEN stop_select(ms) ELSE ms
           /\ UNCHANGED <<gen, msg_count, sc, fo, lp, col>>

ScrNext == ScrAdd \/ ScrRemove \/ ScrInput

SpecScreen == ScrInit /\ [][ScrNext]_vars

(* ------------------ the chat panel under input: the state machine ----- *)
\* most messages in the log while the overlays take input
MaxLog == 1

\* ChatOverlay.msg_append while the log is short
LogAppend == Len(ms.all) < MaxLog /\ MsgAppend

ChatInputNext ==
    ScrAdd \/ ScrRemove \/ ScrInput \/ LogAppend \/ MsgUp \/ MsgDown

\* the overlay stack taking input while messages are appended and selected
SpecChatInput == ScrInit /\ [][ChatInputNext]_vars

(* ------------------------ the mouse: the state machine ----------------- *)
\* the greatest column clicked and the most events the driver queues
MaxClickX == 1
MaxPending == 1
\* the events the terminal reports
Clicks ==
    {<<x, 0, state>> : x \in 0..MaxClickX,
                       state \in {"left", "middle", "wheel-up"}}

\* a mouse event reaches the driver and KEY_MOUSE is read by Screen.input;
\* the ChatOverlay's wheel handlers move the selection. own records whether
\* the handler that ran took the event that has just arrived
ScrMouse ==
    \E click \in Clicks :
        \E r \in {mouse_input([scr EXCEPT !.driver = Append(@, click),
                                          !.by = "none"])} :
            /\ scr.active
            /\ Len(scr.driver) < MaxPending
            /\ scr' = [r.s EXCEPT !.own = IF ~r.handled THEN "none"
                                          ELSE IF r.data = click THEN "own"
                                          ELSE "other"]
            /\ ms' = IF r.handled /\ r.s.by = "chat" /\ r.data[3] = "wheel-up"
                     THEN up(ms, 1).m
                     ELSE ms
            /\ UNCHANGED <<gen, msg_count, sc, fo, lp, col>>

MouseNext == ScrAdd \/ ScrRemove \/ ScrMouse

SpecMouse == ScrInit /\ [][MouseNext]_vars

(* ------------------ FutureOverlay: the state machine ------------------- *)
\* most timer tasks alive at once
MaxTimers == 2
\* most handles in the ready queue
MaxReady == 2

\* the overlays are built on a Screen whose read-loop is not running
FoInit ==
    /\ fo = FuturesInit
    /\ LoopIdle
    /\ ScreenIdle
    /\ MessagesIdle
    /\ ViewportIdle
    /\ ColoringIdle
    /\ IterIdle

\* overlay.add()
FoAdd ==
    \E o \in LoopOverlays :
        \E w \in {overlay_add(World(fo, scr, lp, ms), o)} :
           /\ w.f.live <= MaxTimers
           /\ Len(w.l.ready) <= MaxReady
           /\ fo' = w.f /\ scr' = w.s /\ lp' = w.l /\ ms' = w.m
           /\ UNCHANGED <<gen, msg_count, sc, col>>

\* overlay.remove()
FoRemove ==
    \E o \in LoopOverlays :
        \E w \in {overlay_remove(World(fo, scr, lp, ms), o)} :
           /\ Len(w.l.ready) <= MaxReady
           /\ fo' = w.f /\ scr' = w.s /\ lp' = w.l /\ ms' = w.m
           /\ UNCHANGED <<gen, msg_count, sc, col>>

\* the keys that set the result of a stacked overlay: Enter and Tab of the
\* ListOverlay, the newline typed into the ChatOverlay's text
\* (_NScrollable.append_bytes), which leaves the overlay in place
FoSetResult ==
    \E o \in LoopOverlays, key \in {"enter", "tab", "newline"} :
        \E w \in {set_result(World(fo, scr, lp, ms), o, key)} :
           /\ (key = "newline") = (o = "chat")
           /\ scr.active
           /\ scr.index[o] # None
           /\ fo.future[o] = "pending"
           /\ Len(w.l.ready) <= MaxReady
           /\ fo' = w.f /\ scr' = w.s /\ lp' = w.l /\ ms' = w.m
           /\ UNCHANGED <<gen, msg_count, sc, col>>

\* a task begins to await o.result or o.exit
FoAwait ==
    \E o \in LoopOverlays, kind \in {"result", "exit"} :
        \E w \in {await(World(fo, scr, lp, ms), o, kind)} :
           /\ \A i \in 1..Len(fo.waiting[o]) : fo.waiting[o][i] # kind
           /\ Len(w.l.ready) <= MaxReady
           /\ fo' = w.f /\ scr' = w.s /\ lp' = w.l /\ ms' = w.m
           /\ UNCHANGED <<gen, msg_count, sc, col>>

\* the loop runs the next ready handle
FoRun ==
    /\ lp.ready # <<>>
    /\ \E ret \in BOOLEAN :
        \E w \in {run_handle(World(fo, scr, [lp EXCEPT !.ready = Tail(@)], ms),
                            Head(lp.ready), ret, FALSE, "none", lp.term, <<>>)} :
           /\ Len(w.l.ready) <= MaxReady
           /\ fo' = w.f /\ scr' = w.s /\ lp' = w.l /\ ms' = w.m
           /\ UNCHANGED <<gen, msg_count, sc, col>>

FoNext == FoAdd \/ FoRemove \/ FoSetResult \/ FoAwait \/ FoRun

SpecFutures == FoInit /\ [][FoNext]_vars

(* --------------------- the loop: the state machine --------------------- *)
\* most tasks of Screen.resize asleep at once
MaxAsleep == 1

\* Manager.run up to the first sleep of Screen.input in a full terminal:
\* the Screen is built, resize is awaited with no overlay in the stack,
\* input polls getch
LpInit ==
    /\ \E w \in {getch(resize(World(FuturesInit, ScreenInit, LoopInit,
                                     MessagesInit),
                               Handle("resize", "", "", NoSize, -1)),
                        "none", LoopInit.term)} :
           fo = w.f /\ scr = w.s /\ lp = w.l /\ ms = w.m
    /\ msg_count = 0
    /\ ViewportIdle
    /\ ColoringIdle
    /\ IterIdle

\* overlay.add() of an overlay that is not in the stack, called by a task
LpAdd ==
    \E o \in LoopOverlays :
        \E w \in {overlay_add(World(fo, scr, lp, ms), o)} :
           /\ scr.index[o] = None
           /\ w.f.live <= MaxTimers
           /\ Len(w.l.ready) <= MaxReady
           /\ fo' = w.f /\ scr' = w.s /\ lp' = w.l /\ ms' = w.m
           /\ UNCHANGED <<gen, msg_count, sc, col>>

\* overlay.remove() called by a task
LpRemove ==
    \E o \in LoopOverlays :
        \E w \in {overlay_remove(World(fo, scr, lp, ms), o)} :
           /\ Len(w.l.ready) <= MaxReady
           /\ fo' = w.f /\ scr' = w.s /\ lp' = w.l /\ ms' = w.m
           /\ UNCHANGED <<gen, msg_count, sc, col>>

\* ChatOverlay.redo_lines called by a task
LpRedoLines ==
    \E w \in {schedule_display(World(fo, scr, lp, redo_lines(ms)))} :
       /\ Len(w.l.ready) <= MaxReady
       /\ fo' = w.f /\ scr' = w.s /\ lp' = w.l /\ ms' = w.m
       /\ UNCHANGED <<gen, msg_count, sc, col>>

\* the sleep of Screen.input is over: the read-loop is ready to run
LpWakeMain ==
    /\ lp.main = "asleep"
    /\ Len(lp.ready) < MaxReady
    /\ lp' = [lp EXCEPT !.main = "queued", !.ready = Append(@, Task("main"))]
    /\ UNCHANGED <<gen, ms, msg_count, sc, scr, fo, col>>

\* the sleep of a task of Screen.resize is over
LpWakeResize ==
    /\ lp.asleep # <<>>
    /\ Len(lp.ready) < MaxReady
    /\ lp' = [lp EXCEPT !.asleep = Tail(@), !.ready = Append(@, Head(lp.asleep))]
    /\ UNCHANGED <<gen, ms, msg_count, sc, scr, fo, col>>

\* the loop runs the next ready handle: a task of Screen.display or of
\* Screen.resize, or the wake-up of a task that awaited a future
LpRunTask ==
    /\ lp.ready # <<>>
    /\ Head(lp.ready).kind \in {"display", "resize", "result", "exit"}
    /\ \E w \in {run_handle(World(fo, scr, [lp EXCEPT !.ready = Tail(@)], ms),
                            Head(lp.ready), FALSE, FALSE, "none", lp.term,
                            <<>>)} :
           /\ Len(w.l.ready) <= MaxReady
           /\ Len(w.l.asleep) <= MaxAsleep
           /\ fo' = w.f /\ scr' = w.s /\ lp' = w.l /\ ms' = w.m
           /\ UNCHANGED <<gen, msg_count, sc, col>>

\* the loop runs _new_callback of a future that is done
LpRunCallback ==
    /\ lp.ready # <<>>
    /\ Head(lp.ready).kind = "_new_callback"
    /\ \E ret \in BOOLEAN :
        \E w \in {run_handle(World(fo, scr, [lp EXCEPT !.ready = Tail(@)], ms),
                            Head(lp.ready), ret, FALSE, "none", lp.term,
                            <<>>)} :
           /\ Len(w.l.ready) <= MaxReady
           /\ fo' = w.f /\ scr' = w.s /\ lp' = w.l /\ ms' = w.m
           /\ UNCHANGED <<gen, msg_count, sc, col>>

\* the loop runs the read-loop: ^w of the stack, ^l of the screen, ^C
LpRunMain ==
    /\ lp.ready # <<>>
    /\ Head(lp.ready).kind = "main"
    /\ \E next \in {"quit", "redraw", "cancel", "none"} :
        \E w \in {run_handle(World(fo, scr, [lp EXCEPT !.ready = Tail(@)], ms),
                            Head(lp.ready), FALSE, FALSE, next, lp.term, <<>>)} :
           /\ Len(w.l.ready) <= MaxReady
           /\ fo' = w.f /\ scr' = w.s /\ lp' = w.l /\ ms' = w.m
           /\ UNCHANGED <<gen, msg_count, sc, col>>

LpNext ==
    \/ LpAdd \/ LpRemove \/ LpRedoLines \/ LpWakeMain
    \/ LpRunTask \/ LpRunCallback \/ LpRunMain

SpecLoop == LpInit /\ [][LpNext]_vars

(* ------------------------- resize events ------------------------------- *)
\* Manager.run up to the first sleep of Screen.input in a terminal of any
\* of the sizes
RsInit ==
    /\ \E size \in Sizes :
           \E w \in {getch(resize(World(FuturesInit, ScreenInit,
                                       [LoopInit EXCEPT !.term = size],
                                       MessagesInit),
                                 Handle("resize", "", "", NoSize, -1)),
                          "none", size)} :
               fo = w.f /\ scr = w.s /\ lp = w.l /\ ms = w.m
    /\ msg_count = 0
    /\ ViewportIdle
    /\ ColoringIdle
    /\ IterIdle

\* the loop runs the read-loop: a resize event, which comes with the
\* terminal's new size
RsRunMain ==
    /\ lp.ready # <<>>
    /\ Head(lp.ready).kind = "main"
    /\ \E next \in {"resize", "none"}, size \in Sizes :
        \E w \in {run_handle(World(fo, scr, [lp EXCEPT !.ready = Tail(@)], ms),
                            Head(lp.ready), FALSE, FALSE, next, size, <<>>)} :
           /\ next = "resize" \/ size = lp.term
           /\ Len(w.l.ready) <= MaxReady
           /\ fo' = w.f /\ scr' = w.s /\ lp' = w.l /\ ms' = w.m
           /\ UNCHANGED <<gen, msg_count, sc, col>>

RsNext ==
    \/ LpAdd \/ LpRemove \/ LpWakeMain \/ LpWakeResize
    \/ LpRunTask \/ LpRunCallback \/ RsRunMain

SpecResize == RsInit /\ [][RsNext]_vars

(* ------------------- commands and handler faults ----------------------- *)
\* the loop runs the read-loop: Enter with text in the Viewport, a key
\* whose handler raises, ^w, ^C
CmdRunMain ==
    /\ lp.ready # <<>>
    /\ Head(lp.ready).kind = "main"
    /\ \E next \in {"enter", "fault", "quit", "cancel", "none"},
          string \in Typed :
        \E w \in {run_handle(World(fo, scr, [lp EXCEPT !.ready = Tail(@)], ms),
                            Head(lp.ready), FALSE, FALSE, next, lp.term,
                            string)} :
           /\ lp.unit = "enter" \/ string = <<"a">>
           /\ Len(w.l.ready) <= MaxReady
           /\ fo' = w.f /\ scr' = w.s /\ lp' = w.l /\ ms' = w.m
           /\ UNCHANGED <<gen, msg_count, sc, col>>

\* the loop runs a task of Command._run
CmdRunCommand ==
    /\ lp.ready # <<>>
    /\ Head(lp.ready).kind = "command"
    /\ \E fails \in BOOLEAN :
        \E w \in {run_handle(World(fo, scr, [lp EXCEPT !.ready = Tail(@)], ms),
                            Head(lp.ready), FALSE, fails, "none", lp.term,
                            <<>>)} :
           /\ Len(w.l.ready) <= MaxReady
           /\ w.f.live <= MaxTimers
           /\ fo' = w.f /\ scr' = w.s /\ lp' = w.l /\ ms' = w.m
           /\ UNCHANGED <<gen, msg_count, sc, col>>

CmdNext ==
    \/ LpAdd \/ LpRemove \/ LpWakeMain
    \/ LpRunTask \/ LpRunCallback \/ CmdRunMain \/ CmdRunCommand

SpecCommands == LpInit /\ [][CmdNext]_vars

(* --------------------- the input line: the state machine --------------- *)
\* most characters in the input line
MaxLine == 2
\* the units typed one at a time: a slash, the first letter of quit and
\* Enter (no backslash is typed, _escape_mode stays unset)
LineUnits == {<<"/">>, <<"q">>, <<"\n">>}
\* the ChatOverlay is built and added to the Screen, whose read-loop is not
\* modelled here
LnInit ==
    /\ \E w \in {overlay_add(World(FuturesInit, ScreenInit, LoopInit,
                                   MessagesInit), "chat")} :
           fo = w.f /\ scr = w.s /\ lp = w.l /\ ms = w.m
    /\ msg_count = 0
    /\ ViewportIdle
    /\ ColoringIdle
    /\ IterIdle

\* add() of a plain TextOverlay that is not in the stack
LnAdd ==
    \E w \in {overlay_add(World(fo, scr, lp, ms), "text")} :
       /\ scr.index["text"] = None
       /\ Len(w.l.ready) <= MaxReady
       /\ fo' = w.f /\ scr' = w.s /\ lp' = w.l /\ ms' = w.m
       /\ UNCHANGED <<gen, msg_count, sc, col>>

\* remove() of the TextOverlay in the stack
LnRemove ==
    \E w \in {overlay_remove(World(fo, scr, lp, ms), "text")} :
       /\ scr.index["text"] # None
       /\ Len(w.l.ready) <= MaxReady
       /\ fo' = w.f /\ scr' = w.s /\ lp' = w.l /\ ms' = w.m
       /\ UNCHANGED <<gen, msg_count, sc, col>>

\* Manager.run: await screen.input() with a unit of text; an exception
\* that escapes leaves what the handler had done. Screen.input sleeps
\* between getch and the dispatch, the loop has run what was ready by then
LnType ==
    \E chars \in LineUnits :
        \E d \in {line_input(World(fo, scr, lp, ms), "text", chars)} :
           /\ scr.active
           /\ lp.ready = <<>>
           /\ Len(d.w.s.text.str) <= MaxLine
           /\ Len(d.w.l.ready) <= MaxReady
           /\ fo' = d.w.f /\ scr' = d.w.s /\ lp' = d.w.l /\ ms' = d.w.m
           /\ UNCHANGED <<gen, msg_count, sc, col>>

\* Manager.run: await screen.input() with the key up or down
LnBrowse ==
    \E key \in {"up", "down"} :
        \E d \in {line_input(World(fo, scr, lp, ms), key, <<>>)} :
           /\ scr.active
           /\ lp.ready = <<>>
           /\ Len(d.w.l.ready) <= MaxReady
           /\ fo' = d.w.f /\ scr' = d.w.s /\ lp' = d.w.l /\ ms' = d.w.m
           /\ UNCHANGED <<gen, msg_count, sc, col>>

\* the loop runs the next ready handle
LnRun ==
    /\ lp.ready # <<>>
    /\ \E fails \in BOOLEAN :
        \E w \in {run_handle(World(fo, scr, [lp EXCEPT !.ready = Tail(@)], ms),
                            Head(lp.ready), FALSE, fails, "none", lp.term,
                            <<>>)} :
           /\ fails => Head(lp.ready).kind = "command"
           /\ Len(w.l.ready) <= MaxReady
           /\ w.f.live <= MaxTimers
           /\ fo' = w.f /\ scr' = w.s /\ lp' = w.l /\ ms' = w.m
           /\ UNCHANGED <<gen, msg_count, sc, col>>

LnNext == LnAdd \/ LnRemove \/ LnType \/ LnBrowse \/ LnRun

SpecLine == LnInit /\ [][LnNext]_vars

(* ----------------------- Coloring: the state machine ------------------- *)
\* the span of offsets effect_range(start, upto) names in a text of n
\* characters
Span(n, start, upto) ==
    {k \in Offsets :
        /\ k >= (IF start < 0 THEN n + start ELSE start)
        /\ k < (IF upto <= 0 THEN n + upto ELSE upto)}

\* the Colorings concatenated to another: a text with no run, one colour,
\* or one effect span
Others ==
    UNION {{Coloring(Letter(n))}
           \cup {insert_color(Coloring(Letter(n)), position, formatting) :
                     position \in 0..n, formatting \in Palette}
           \cup {effect_range(Coloring(Letter(n)), start, 0, bit) :
                     start \in 0..n, bit \in Effects}
           : n \in 0..(MaxColLen - 1)}

\* what every call is followed within
ColBounds(c) ==
    /\ Len(c.str) <= MaxColLen
    /\ Len(c.positions) <= MaxRuns

\* Coloring(string)
ColInit ==
    /\ \E n \in 0..MaxColLen : col = ColorState(Coloring(Letter(n)))
    /\ MessagesIdle
    /\ ViewportIdle
    /\ ScreenIdle
    /\ FuturesIdle
    /\ LoopIdle
    /\ IterIdle

\* Coloring.insert_color(position, formatting), the position in the text
ColInsertColor ==
    \E position \in (0 - 1)..Len(col.c.str), formatting \in Palette :
        \E c \in {insert_color(col.c, position, formatting)} :
           /\ ~col.c.err
           /\ ColBounds(c)
           /\ col' = [col EXCEPT !.c = c]
           /\ UNCHANGED <<gen, ms, msg_count, sc, scr, fo, lp>>

\* Coloring.effect_range(start, upto, bit), the span in the text
ColEffectRange ==
    \E start \in (0 - 1)..Len(col.c.str), upto \in (0 - 1)..Len(col.c.str),
       bit \in Effects :
        \E c \in {effect_range(col.c, start, upto, bit)} :
           /\ ~col.c.err
           /\ ColBounds(c)
           /\ col' = [col EXCEPT !.c = c]
           /\ UNCHANGED <<gen, ms, msg_count, sc, scr, fo, lp>>

\* Coloring.__add__(other)
ColAdd ==
    \E other \in Others :
        \E c \in {Coloring_add(col.c, other)} :
           /\ ~col.c.err
           /\ ColBounds(c)
           /\ col' = [col EXCEPT !.c = c]
           /\ UNCHANGED <<gen, ms, msg_count, sc, scr, fo, lp>>

ColNext == ColInsertColor \/ ColEffectRange \/ ColAdd

SpecColoring == ColInit /\ [][ColNext]_vars

\* effect_range only, on a text of MaxColLen letters
EfInit ==
    /\ col = ColorState(Coloring(Letter(MaxColLen)))
    /\ MessagesIdle
    /\ ViewportIdle
    /\ ScreenIdle
    /\ FuturesIdle
    /\ LoopIdle
    /\ IterIdle

\* Coloring.effect_range(start, upto, bit), the span in the text, with the
\* spans asked for kept
EfEffectRange ==
    \E start \in (0 - 1)..Len(col.c.str), upto \in (0 - 1)..Len(col.c.str),
       bit \in Effects :
        \E c \in {effect_range(col.c, start, upto, bit)} :
           /\ ~col.c.err
           /\ ColBounds(c)
           /\ col' = [col EXCEPT
                         !.c = c,
                         !.bits = @ \cup {bit},
                         !.cover[bit] =
                             [k \in Offsets |->
                                 IF k \in Span(Len(col.c.str), start, upto)
                                 THEN 1 - @[k] ELSE @[k]]]
           /\ UNCHANGED <<gen, ms, msg_count, sc, scr, fo, lp>>

EfNext == EfEffectRange

SpecEffects == EfInit /\ [][EfNext]_vars

(* ---------------------- breaklines: the state machine ------------------ *)
\* longest text drawn from the alphabet, and the largest length asked for
MaxBreakLen == 4
MaxLength == 10

\* text with a word that ends on the last column and text with a word
\* carried to the next line
Example ==
    <<"a", "b", "c", "d", "e", "f", "g", "h", "i", "j", " ",
      "k", "l", "m", "n", "o">>
Carried == <<"a", "b", "c", " ", "d", "e", "f">>
BreakAlphabet == {"a", " ", "\n", "\t", WIDE}
Texts ==
    UNION {[1..n -> BreakAlphabet] : n \in 0..MaxBreakLen}
    \cup {Example, Carried}
\* a text as it is, with a colour at its front, or with an effect from its
\* second character to its end
Dressed(text) ==
    {Coloring(text),
     insert_color(Coloring(text), 0, 2 - PREDEFINED),
     effect_range(Coloring(text), 1, 0, 0)}
Outdents == {Spaces(0), Spaces(2), Spaces(5)}

BrInit ==
    /\ \E text \in Texts : \E c \in Dressed(text) : col = ColorState(c)
    /\ MessagesIdle
    /\ ViewportIdle
    /\ ScreenIdle
    /\ FuturesIdle
    /\ LoopIdle
    /\ IterIdle

\* Coloring.breaklines(length, outdent, keep_empty): the Coloring is left as
\* it is, so one call of each text is followed
BrBreaklines ==
    \E length \in 1..MaxLength, outdent \in Outdents, keep_empty \in BOOLEAN :
        /\ ~col.called
        /\ col' = [col EXCEPT
                      !.called = TRUE,
                      !.broken = breaklines(col.c, length, outdent, keep_empty),
                      !.length = length,
                      !.outdent = outdent,
                      !.keep_empty = keep_empty]
        /\ UNCHANGED <<gen, ms, msg_count, sc, scr, fo, lp>>

BrNext == BrBreaklines

SpecBreaklines == BrInit /\ [][BrNext]_vars

(* ------------------ JustifiedColoring: the state machine --------------- *)
\* longest text justified, most runs on it, and the widest justification
MaxJustLen == 2
MaxJustRuns == 2
MaxJustify == 3

\* the arguments justify is called with
JustLengths == {1, MaxJustify}
JustChars == {" ", "."}
JustEnsure == {0, 2}
\* everything the rendering is made from: the text, the indicator, the runs
\* in their order and the arguments
Inputs(j, length, justchar, ensure_indicator) ==
    <<j.c.str, j.indicator, j.c.positions, j.c.formatting,
      length, justchar, ensure_indicator>>

\* JustifiedColoring(string)
JcInit ==
    /\ \E n \in 1..MaxJustLen : col = ColorState(Coloring(Letter(n)))
    /\ MessagesIdle
    /\ ViewportIdle
    /\ ScreenIdle
    /\ FuturesIdle
    /\ LoopIdle
    /\ IterIdle

\* Coloring.setstr(new): the runs are cleared
JcSetstr ==
    \E n \in 1..MaxJustLen :
        /\ ~col.c.err
        /\ col' = [col EXCEPT !.c = Coloring(Letter(n)), !.justified = FALSE]
        /\ UNCHANGED <<gen, ms, msg_count, sc, scr, fo, lp>>

\* Coloring.insert_color(position, formatting)
JcInsertColor ==
    \E position \in 0..Len(col.c.str), formatting \in Palette :
        \E c \in {insert_color(col.c, position, formatting)} :
           /\ ~col.c.err
           /\ Len(c.positions) <= MaxJustRuns
           /\ col' = [col EXCEPT !.c = c, !.justified = FALSE]
           /\ UNCHANGED <<gen, ms, msg_count, sc, scr, fo, lp>>

\* JustifiedColoring.add_indicator(sub, color, effect)
JcAddIndicator ==
    \E sub \in {<<"x", "y">>}, color \in {None, 2 - PREDEFINED},
       effect \in {None} :
        /\ ~col.c.err
        /\ col' = [add_indicator(col, sub, color, effect)
                       EXCEPT !.justified = FALSE]
        /\ UNCHANGED <<gen, ms, msg_count, sc, scr, fo, lp>>

\* JustifiedColoring.justify(length, justchar, ensure_indicator); made keeps
\* what the stored rendering was made from and fresh that this call made it
JcJustify ==
    \E length \in JustLengths, justchar \in JustChars,
       ensure_indicator \in JustEnsure :
        \E j \in {justify(col, length, justchar, ensure_indicator)} :
           /\ ~col.c.err
           /\ col' = [j EXCEPT
                         !.justified = TRUE,
                         !.args = <<length, justchar, ensure_indicator>>,
                         !.fresh = (col.memoargs
                                      # memo_hash(col, length, justchar,
                                                  ensure_indicator)),
                         !.made =
                             IF col.memoargs
                                  # memo_hash(col, length, justchar,
                                              ensure_indicator)
                                /\ ~j.c.err
                             THEN Inputs(col, length, justchar,
                                         ensure_indicator)
                             ELSE @]
           /\ UNCHANGED <<gen, ms, msg_count, sc, scr, fo, lp>>

JcNext == JcSetstr \/ JcInsertColor \/ JcAddIndicator \/ JcJustify

SpecJustify == JcInit /\ [][JcNext]_vars

(* ------------------------- claims on Messages -------------------------- *)
\* C1: on a non-empty log, after any sequence of append, delete, up(k) and
\* down(k), start_message >= 0 and 0 <= selector <= len(messages).
C1_ScrollInvariant ==
    Len(ms.all) > 0 =>
        /\ ms.start_message >= 0
        /\ 0 <= ms.selector
        /\ ms.selector <= Len(ms.all)

\* C2 (as stated): from any reachable state, up(k) then down(k) restores the
\* five viewport integers unless up or down is stopped by the top or the
\* bottom of the log.
Stopped(m, k) == up(m, k).edge \/ down(up(m, k).m, k).edge
Raised(m, k) == up(m, k).err \/ down(up(m, k).m, k).err
Restored(m, k) == Five(down(up(m, k).m, k).m) = Five(m)
WindowKept(m, k) ==
    /\ m.hidden_top = 0
    /\ up(m, k).m.hidden_top = 0
    /\ up(m, k).m.start_message = m.start_message
    /\ up(m, k).m.start_inner = m.start_inner
UpDownCase(m, k) ==
    /\ HasSelected(m)
    /\ selected(m).height # 0
    /\ m.start_message < m.selector
    /\ WindowKept(m, k)
    /\ ~Stopped(m, k)
    /\ ~Raised(m, k)
DeleteKeeps(m, n) ==
    /\ n.selector <= Len(n.all)
    /\ (HasSelected(m) /\ selected(m).mid \in Mids(n.all)) =>
          (HasSelected(n) /\ selected(n).mid = selected(m).mid)
C3_DeleteKeepsSelection ==
    \A mids \in SUBSET Mids(ms.all), delete_all \in BOOLEAN :
        DeleteKeeps(ms, delete(ms, mids, delete_all))

\* C4: with a message selected, append and prepend leave the same Message
\* selected; append raises selector by one and either adds the new message's
\* height to height_up (window at the bottom and the message fits) or raises
\* start_message by one; prepend changes none of the five integers.
SameSelected(m, n) == HasSelected(n) /\ selected(n).mid = selected(m).mid
AppendShifts(m, n, h) ==
    /\ n.selector = m.selector + 1
    /\ n.start_inner = m.start_inner
    /\ n.hidden_top = m.hidden_top
    /\ IF m.start_message = 0 /\ h + m.height_up <= ViewHeight
       THEN n.height_up = m.height_up + h /\ n.start_message = m.start_message
       ELSE n.height_up = m.height_up /\ n.start_message = m.start_message + 1
C4_InsertKeepsSelection ==
    \A h \in 0..MaxMsgHeight :
        HasSelected(ms) =>
            /\ SameSelected(ms, append(ms, Message(msg_count, h)))
            /\ AppendShifts(ms, append(ms, Message(msg_count, h)), h)
            /\ SameSelected(ms, prepend(ms, Message(msg_count, h)))
            /\ Five(prepend(ms, Message(msg_count, h))) = Five(ms)
C4_Witness ==
    /\ HasSelected(ms)
    /\ ms.selector >= 2
    /\ ms.start_message = 0
    /\ Len(ms.all) < MaxMsgs
    /\ msg_count < MaxMid
    /\ \E h \in 1..MaxMsgHeight :
          /\ h + ms.height_up > ViewHeight
          /\ append(ms, Message(msg_count, h)).start_message = 1

(* ------------------------ claims on the Scrollable --------------------- *)
\* C5: for a viewport of width w holding single-column characters, after any
\* sequence of append(text) and movepos(delta) calls the cursor satisfies
\* 0 <= cursor index - display offset < w.
C5_CursorVisible ==
    0 <= sc.pos - sc.disp /\ sc.pos - sc.disp < sc.width

\* the window has scrolled right under appended text and the cursor has
\* been moved back from the end
C5_Witness == sc.disp > 0 /\ sc.pos < Len(sc.str)

\* C6: after every viewport mutation -- construction on an initial string,
\* setwidth, setstr, backspace, delchar, delword, delnextword, home, end,
\* clear, a suggestion substitution -- display offset <= cursor index <
\* display offset + width.
C6_CursorInWindow ==
    sc.disp <= sc.pos /\ sc.pos < sc.disp + sc.width

(* -------------------------- claims on the Screen ----------------------- *)
\* C7: after any adds and removes that leave the stack non-empty, the floor
\* _last_replace is a valid stack index, is the position of the topmost
\* overlay with replace set, and input dispatch does not index the stack
\* out of range.
C7_FloorIsTopReplace ==
    Len(scr.ins) > 0 =>
        /\ 0 <= scr.last_replace
        /\ scr.last_replace < Len(scr.ins)
        /\ LastReplace(scr.ins) # None
               => scr.last_replace = LastReplace(scr.ins)
        /\ \A unit \in Units : ~input(scr, unit).err

\* the overlays are offered the unit from the top down, one after another
TopDown(s, r) ==
    \A k \in 1..Len(r.offered) : r.offered[k] = Len(s.ins) - k
\* the walk moves below an overlay only when that overlay found no handler
\* and has terminate_input unset (do_input is set for the topmost only)
MovesOnUnhandled(s, r, unit) ==
    \A k \in 1..(Len(r.offered) - 1) :
        /\ ~handles(InsAt(s, r.offered[k]), unit, k = 1)
        /\ ~terminate_input(InsAt(s, r.offered[k]))
\* the one handler that runs is that of the last overlay offered
StopsAtHandler(r) ==
    r.ran # None => r.ran = r.offered[Len(r.offered)]
AboveFloor(s, r) ==
    \A k \in 1..Len(r.offered) : r.offered[k] >= s.last_replace

\* C8: Screen.input offers each unit to the overlays from the top of the
\* stack downward, stops at the first overlay that handles it, moves to the
\* next lower overlay only when the current one raised KeyException with
\* terminate_input unset, and never offers the unit below the floor.
C8_InputDispatch ==
    \A unit \in Units :
        LET r == input(scr, unit)
        IN /\ ~r.err
           /\ TopDown(scr, r)
           /\ MovesOnUnhandled(scr, r, unit)
           /\ StopsAtHandler(r)
           /\ AboveFloor(scr, r)

\* no overlay twice in the stack, index is the position of every overlay in
\* it and None for every other overlay
Indexed(s) ==
    /\ \A i, j \in 1..Len(s.ins) : s.ins[i] = s.ins[j] => i = j
    /\ \A o \in Overlays :
           s.index[o] = IF InStack(s.ins, o) THEN PositionOf(s.ins, o) ELSE None

\* the call left the stack and every index as they were
SameStack(n, s) == n.ins = s.ins /\ n.index = s.index

\* C9: after any adds and removes (add of an added overlay and remove of one
\* not added being no-ops) no overlay is twice in the stack, every overlay in
\* the stack has index equal to its position and every other has index None.
C9_StackIndexed ==
    /\ Indexed(scr)
    /\ \A o \in Overlays :
           /\ Indexed(add(scr, o))
           /\ Indexed(remove(scr, o))
           /\ InStack(scr.ins, o) => SameStack(add(scr, o), scr)
           /\ ~InStack(scr.ins, o) => SameStack(remove(scr, o), scr)

\* removing the bottom overlay of three re-indexes the one on top
C9_Witness ==
    /\ Len(scr.ins) >= 3
    /\ remove(scr, scr.ins[1]).index[scr.ins[3]] = 1
    /\ remove(scr, scr.ins[1]).index[scr.ins[1]] = None

\* last_text is the topmost TextOverlay, or none
OwnerIsTopText(s) == s.last_text = LastText(s.ins)
\* removing the owner o from s gave n with a new owner: the Viewport shows
\* the new owner's prefix
PrefixReset(s, n, o) ==
    (InStack(s.ins, o) /\ s.index[o] = s.last_text /\ n.last_text >= 0)
        => n.text.nonscroll = nonscroll(InsAt(n, n.last_text))

\* C10: after any adds and removes the text owner last_text is the topmost
\* TextOverlay in the stack, or none when there is none, and when the owner
\* changes on a removal the Viewport's non-scrolling prefix is reset to the
\* new owner's prefix.
C10_TextOwner ==
    /\ OwnerIsTopText(scr)
    /\ \A o \in Overlays :
           /\ OwnerIsTopText(add(scr, o))
           /\ OwnerIsTopText(remove(scr, o))
           /\ PrefixReset(scr, remove(scr, o), o)

(* ---------------------- claims on FutureOverlay ------------------------ *)
\* overlay o leaves the stack in this step
Removed(o) == scr.index[o] # None /\ scr'.index[o] = None
\* no task is left suspended on o's future
Released(f, o) == f.waiting[o] = <<>>
\* no timer task of the ChatOverlay is left running
TimersCancelled(f) == f.live = 0

\* C11: a step that removes an overlay leaves no task suspended on its
\* future, leaves no timer task of the ChatOverlay running, and never has
\* the overlay's completion callback entered for the cancellation
C11_RemoveCancels ==
    [][\A o \in LoopOverlays :
           Removed(o) =>
               /\ Released(fo', o)
               /\ o = "chat" => TimersCancelled(fo')
               /\ fo'.called[o] # "cancelled"]_vars

(* ------------------------ claims on the event loop --------------------- *)
\* the program's state as one record
Now == World(fo, scr, lp, ms)
\* the call that led from the state to w ran Screen.display
Painted(w) == w.l.displays # lp.displays \/ w.l.paint # lp.paint

\* C12: whenever an input unit is read, the dispatch turn it ends has run
\* Screen.display exactly once if a repaint was requested in it, however
\* many requests there were; and no call that requests a repaint (add or
\* remove of an overlay, redo_lines) runs Screen.display itself
C12_OneDisplayPerTurn ==
    /\ lp.closed # None => lp.closed = 1
    /\ \A o \in LoopOverlays :
           ~Painted(overlay_add(Now, o)) /\ ~Painted(overlay_remove(Now, o))
    /\ ~Painted(schedule_display(Now))

\* C13: once a resize event has been dispatched, Screen.display writes no
\* rows while an overlay's resize hook is still to run or the Screen's
\* width and height are still the old ones
C13_NoStalePaint == lp.paint # "stale"

\* no overlay that Screen.display would call raises in the Screen as it is
NoneRaises ==
    \A i \in (scr.last_replace + 1)..Len(scr.ins) :
        ~raises(scr.ins[i], lp.width, lp.height)

\* C15: from a DisplayException raised in a paint or in a resize until a
\* resize has gone through without one, a run of Screen.display would write
\* no rows and raise nothing, no step writes rows, and the read-loop has
\* not ended unless the screen was made inactive
C15_DisplayExceptionSuppresses ==
    [][lp.faulted =>
           /\ display(Now).l.paint = "skipped"
           /\ scr.active => lp.main # "ended"
           /\ lp'.faulted => lp'.paint \in {lp.paint, "skipped", "raised"}]_vars

\* painting has been suppressed and display has run and written nothing,
\* though no overlay in the stack would raise any more
C15_Witness ==
    /\ lp.faulted
    /\ lp.paint = "skipped"
    /\ scr.active
    /\ scr.ins # <<>>
    /\ lp.width > 0
    /\ lp.height > 0
    /\ NoneRaises

(* --------------------- claims on faults and commands ------------------- *)
\* this step is a run of the read-loop
RunsMain == lp.main = "queued" /\ lp'.main # "queued"
\* the read-loop is about to dispatch a unit whose handler raises
FaultDispatched ==
    /\ lp.main = "queued"
    /\ lp.unit = "fault"
    /\ scr.ins # <<>>
    /\ 0 <= scr.last_replace
    /\ scr.last_replace < Len(scr.ins)

\* C14: when the read-loop dispatches a unit whose handler raises an
\* exception, the step ends with the notification pushed and, the screen
\* being active, with the loop in Screen.input again, the next getch done;
\* no run of the read-loop ends it while the screen is active
C14_HandlerFaultCaught ==
    [][RunsMain =>
           /\ FaultDispatched =>
                  /\ lp'.blurb = "Error occurred in key callback"
                  /\ scr'.active => lp'.main = "asleep"
           /\ lp'.main = "ended" => ~scr'.active]_vars

\* a handler's fault was reported and the loop has read Enter since
C14_Witness ==
    /\ lp.blurb = "Error occurred in key callback"
    /\ lp.main = "asleep"
    /\ lp.unit = "enter"
    /\ scr.active

\* the names typed after the command character, the empty one among them
TypedNames == {Tail(string) : string \in {s \in Typed : s[1] = Command_CHAR}}
                  \cup {<<>>}
\* the registered names that start with the typed name
Matching(string) ==
    {c \in commands : startswith(CommandNames[c], FirstArg(string))}
\* the tasks of Command._run in a ready queue
Invoked(ready) == {i \in 1..Len(ready) : ready[i].kind = "command"}
\* w is the state with one more task, which runs command c
Invokes(w, c) ==
    w.l.ready = Append(lp.ready, Handle("command", c, "", NoSize, 0))
\* w is the state with a new notification and no new task
OnlyNotifies(w) ==
    /\ w.l.ready = lp.ready
    /\ w.l.blurb \in {"not found", "ambiguous"}
    /\ [w EXCEPT !.l.blurb = lp.blurb] = Now

\* C16: Command.run creates the task of a command exactly when one
\* registered name starts with the typed name, and the task is that
\* command's; with several matches or none it pushes a notification and
\* changes nothing else; Enter on a command line raises nothing; a command
\* that raises leaves a notification and nothing else
C16_UniquePrefixInvokes ==
    /\ \A string \in TypedNames :
           /\ Cardinality(Matching(string)) = 1 =>
                  \A c \in Matching(string) : Invokes(Command_run(Now, string), c)
           /\ Cardinality(Matching(string)) # 1 =>
                  OnlyNotifies(Command_run(Now, string))
           /\ append_bytes(Now, <<Command_CHAR>> \o string).exc = "none"
    /\ \A c \in commands :
           Command__run(Now, c, TRUE) = push(Now, "command failed")

\* an ambiguous name was refused and a task of Command._run is ready
C16_Witness ==
    /\ lp.blurb = "ambiguous"
    /\ Invoked(lp.ready) # {}

(* ------------------------- claims on Coloring -------------------------- *)
StrictlyIncreasing(positions) ==
    \A i \in 1..(Len(positions) - 1) : positions[i] < positions[i + 1]

\* C17: after any sequence of insert_color, effect_range and + the run
\* positions are strictly increasing, so none is there twice, and there are
\* as many formattings as positions
C17_RunsStrictlyIncreasing ==
    /\ StrictlyIncreasing(col.c.positions)
    /\ Len(col.c.positions) = Len(col.c.formatting)

\* the effect is on when the character at offset k is written
EffectOn(c, bit, k) == BitAnd(format_effect(c, 1, k), 2 ^ bit) # 0

\* C18: after effect_range calls for one effect, at every offset the effect
\* is on exactly if an odd number of the requested spans cover the offset;
\* so two adjacent spans leave it on over both and it is off from the end
\* of the last span on
C18_EffectParity ==
    \A bit \in Effects :
        col.bits = {bit} =>
            \A k \in Offsets :
                EffectOn(col.c, bit, k) = (col.cover[bit][k] = 1)

(* ------------------------ claims on breaklines ------------------------- *)
\* C19: every line breaklines returns is at most length columns wide,
\* escapes not counted and the outdent counted, whenever length is greater
\* than the outdent's width; and the text of Example with length 10 and no
\* outdent gives exactly two lines
C19_LinesFit ==
    col.called =>
        /\ col.length > collen(col.outdent) =>
               \A i \in 1..Len(col.broken) : collen(col.broken[i]) <= col.length
        /\ (col.c.str = Example /\ col.length = 10 /\ col.outdent = <<>>) =>
               Len(col.broken) = 2

\* a line without its escape sequences, from place i on
RECURSIVE strip_from(_, _, _)
strip_from(string, i, escape) ==
    IF i > Len(string) THEN <<>>
    ELSE IF ~(string[i] = ESC \/ escape)
         THEN <<string[i]>> \o strip_from(string, i + 1, FALSE)
         ELSE strip_from(string, i + 1, ~isalpha(string[i]))
\* the lines, escapes stripped, one after the other
RECURSIVE Joined(_)
Joined(lines) ==
    IF lines = <<>> THEN <<>>
    ELSE strip_from(Head(lines), 1, FALSE) \o Joined(Tail(lines))
\* the characters of a text that take columns
Visible(text) == SelectSeq(text, LAMBDA j : ~is_control(j))
\* the visible characters of the text from place i on with every CR or LF
\* as one space
RECURSIVE Spaced(_, _)
Spaced(text, i) ==
    IF i > Len(text) THEN <<>>
    ELSE IF text[i] \in {"\r", "\n"} THEN <<" ">> \o Spaced(text, i + 1)
    ELSE IF is_control(text[i]) THEN Spaced(text, i + 1)
    ELSE <<text[i]>> \o Spaced(text, i + 1)
\* the same with every CR or LF as one space or as nothing
RECURSIVE SpacedOrNot(_, _)
SpacedOrNot(text, i) ==
    IF i > Len(text) THEN {<<>>}
    ELSE IF text[i] \in {"\r", "\n"}
         THEN {<<" ">> \o rest : rest \in SpacedOrNot(text, i + 1)}
              \cup SpacedOrNot(text, i + 1)
    ELSE IF is_control(text[i]) THEN SpacedOrNot(text, i + 1)
    ELSE {<<text[i]>> \o rest : rest \in SpacedOrNot(text, i + 1)}

\* C20 as stated: with no outdent the lines of breaklines, escapes
\* stripped, joined give the visible text exactly
C20_RoundTrip ==
    (col.called /\ col.outdent = <<>>) =>
        Joined(col.broken) = Visible(col.c.str)

\* C20: with no outdent the lines of breaklines, escapes stripped, joined
\* hold the visible characters of the text in their order, each once, with
\* one space in the place of every CR or LF (one space or nothing when
\* keep_empty is unset) and no other character with a width
C20_RoundTripSpaced ==
    (col.called /\ col.outdent = <<>>) =>
        IF col.keep_empty
        THEN Visible(Joined(col.broken)) = Spaced(col.c.str, 1)
        ELSE Visible(Joined(col.broken)) \in SpacedOrNot(col.c.str, 1)

C20_Witness ==
    /\ col.called
    /\ col.outdent = <<>>
    /\ \E i \in 1..Len(col.c.str) : col.c.str[i] = "\n"
    /\ \E i \in 1..Len(col.c.str) : col.c.str[i] = "a"
    /\ col.c.positions # <<>>
    /\ Len(col.broken) >= 3
    /\ col.length = 1

(* ---------------------- claims on insert_color ------------------------- *)
\* the places of the runs at a position
RunsAt(c, position) == {i \in 1..Len(c.positions) : c.positions[i] = position}
\* the position insert_color writes at
Written(c, position) ==
    IF position < 0 THEN Max(position + Len(c.str), 0) ELSE position

\* C30: insert_color at a position that has a run already leaves one run
\* there, with the new colour and the effect bits the run had, changes no
\* other run, and a second call with the same arguments changes nothing
C30_InsertColorIdempotent ==
    \A position \in (0 - 1)..Len(col.c.str), formatting \in Palette :
        RunsAt(col.c, Written(col.c, position)) # {} =>
            /\ insert_color(col.c, position, formatting).positions
                   = col.c.positions
            /\ \A i \in 1..Len(col.c.positions) :
                   insert_color(col.c, position, formatting).formatting[i]
                       = IF i \in RunsAt(col.c, Written(col.c, position))
                         THEN (formatting + PREDEFINED + 1) * (2 ^ EFFECTS)
                                  + (col.c.formatting[i] % (2 ^ EFFECTS))
                         ELSE col.c.formatting[i]
            /\ Cardinality(RunsAt(col.c, Written(col.c, position))) = 1
            /\ insert_color(insert_color(col.c, position, formatting),
                            position, formatting)
                   = insert_color(col.c, position, formatting)

(* --------------------------- claims on justify ------------------------- *)
\* C21: justify returns the stored rendering, without making it again, when
\* the text, the runs, the indicator and the arguments are those the stored
\* rendering was made from, and makes the rendering again when one of them
\* differs
C21_JustifyMemo ==
    [][(col'.justified /\ ~col'.c.err) =>
           /\ col'.fresh
                  <=> col.made # Inputs(col', col'.args[1], col'.args[2],
                                        col'.args[3])
           /\ ~col'.fresh => col'.rendered = col.rendered]_vars

(* ----------------------- claims on Messages.up/down -------------------- *)
\* the messages of non-zero height among the selectors lo..hi
Counted(all, lo, hi) ==
    {s \in lo..hi : ValidIndex(all, s) /\ At(all, s).height # 0}

\* C22: up(k) and down(k) pass over the messages of height zero without
\* counting them toward k, and whenever either returns with a selection the
\* selected message has a non-zero height
C22_SkipsZeroHeight ==
    \A k \in 1..MaxAmount :
        /\ \A r \in {up(ms, k)} :
               (~r.err /\ r.m.selector # 0) =>
                   /\ HasSelected(r.m)
                   /\ selected(r.m).height # 0
                   /\ Cardinality(Counted(r.m.all, ms.selector + 1,
                                          r.m.selector)) <= k
        /\ \A r \in {down(ms, k)} :
               (~r.err /\ r.m.selector # 0) =>
                   /\ HasSelected(r.m)
                   /\ selected(r.m).height # 0
                   /\ Cardinality(Counted(r.m.all, r.m.selector,
                                          ms.selector - 1)) <= k

\* the oldest message is selected and up has nothing left to scroll: no line
\* of it is hidden above the view
TopReached(m) ==
    /\ m.selector # 0
    /\ m.selector = Len(m.all)
    /\ m.hidden_top = 0
    /\ m.height_up <= ViewHeight
    /\ m.start_message + 1 = m.selector
           => m.start_inner >= selected(m).height - ViewHeight

\* down(k) has no line to scroll inside the selected message and fewer than
\* k messages of non-zero height lie below it
PastNewest(m, k) ==
    /\ HasSelected(m)
    /\ ~(m.selector = m.start_message + 1 /\ m.start_inner > 0)
    /\ Cardinality(Counted(m.all, 1, m.selector)) <= k

\* C23: up(k) with the oldest message selected and nothing left to scroll
\* returns 0, raises nothing and leaves the five integers unchanged; down(k)
\* with no selection returns 0 and changes nothing; down(k) past the newest
\* message ends the selection and resets the five integers to 0
C23_Boundaries ==
    \A k \in 1..MaxAmount :
        /\ TopReached(ms) =>
               \A r \in {up(ms, k)} :
                   ~r.err /\ r.ret = 0 /\ Five(r.m) = Five(ms)
        /\ ms.selector = 0 =>
               \A r \in {down(ms, k)} : ~r.err /\ r.ret = 0 /\ r.m = ms
        /\ PastNewest(ms, k) =>
               \A r \in {down(ms, k)} :
                   ~r.err /\ r.ret = 0 /\ Five(r.m) = <<0, 0, 0, 0, 0>>

\* two messages, the older one selected with lines above the selection
\* counted: up has reached the top and down(2) leaves the log
C23_Witness ==
    /\ Len(ms.all) = 2
    /\ TopReached(ms)
    /\ ms.height_up > 0
    /\ selected(ms).height # 0
    /\ PastNewest(ms, MaxAmount)

(* --------------------- claims on Messages.display ---------------------- *)
\* the rows of message number msg_number from its bottom line upward, its
\* skip bottom-most lines left out
RowsOf(m, msg_number, skip) ==
    LET msg == At(m.all, msg_number)
        n == Max(msg.height - Max(skip, 0), 0)
    IN [j \in 1..n |-> Row(msg.mid, n - j + 1, msg_number = m.selector)]

\* the rows of the messages from msg_number to the oldest, bottom row first
RECURSIVE RowsFrom(_, _)
RowsFrom(m, msg_number) ==
    IF msg_number > Len(m.all) THEN <<>>
    ELSE RowsOf(m, msg_number,
                IF msg_number = m.start_message + 1 THEN m.start_inner ELSE 0)
            \o RowsFrom(m, msg_number + 1)

\* the rows of the messages from msg_number to the oldest, bottom row first,
\* where every message up to the first one that shows a line has its
\* start_inner bottom-most lines left out
RECURSIVE RowsCarried(_, _)
RowsCarried(m, msg_number) ==
    IF msg_number > Len(m.all) THEN <<>>
    ELSE IF Len(RowsOf(m, msg_number, m.start_inner)) = 0
    THEN RowsCarried(m, msg_number + 1)
    ELSE RowsOf(m, msg_number, m.start_inner) \o RowsFrom(m, msg_number + 1)

Columns == 0..1

\* C25: after display has drawn the panel, from_position(x, y) returns the
\* message m for every row y drawn with a line of m, and no message (''
\* with position -1) for the separator row and for the rows left undrawn
\* above the oldest message drawn
C25_PositionInvertsDisplay ==
    \A d \in {Messages_display(ms, NoLines)} :
        \A y \in 0..(ScreenHeight - 1), x \in Columns :
            \A r \in {from_position(d.m, x, y)} :
                IF d.lines[y + 1] = BlankRow
                THEN r.none
                ELSE ~r.none /\ ~r.err /\ r.mid = d.lines[y + 1].mid

(* ------------------------ claims on ScrollSuggest ---------------------- *)
\* complete called n times in a row
RECURSIVE Cycle(_, _)
Cycle(s, n) == IF n = 0 THEN s ELSE Cycle(complete(s), n - 1)

Edits(s) ==
    {Scrollable_append(s, new) : new \in Strings(MaxText)}
        \cup {movepos(s, dist) : dist \in (0 - MaxDelta)..MaxDelta}
        \cup {setstr(s, new) : new \in Strings(MaxText)}
        \cup {home(s), end(s), wordback(s), wordnext(s), delchar(s),
              delword(s), delnextword(s), Scrollable_clear(s)}
        \cup (IF s.pos = 0 THEN {} ELSE {backspace(s)})

\* C27: after an edit of the text or a move of the cursor that is not a
\* substitution no suggestion is cached, so that the next complete asks the
\* completer again; right after a substitution the list is still cached
C27_EditsDropSuggestions ==
    /\ \A next \in Edits(sc) : next.suggest_list = <<>>
    /\ \A next \in {complete(sc), backcomplete(sc)} :
           (next.str # sc.str \/ next.pos # sc.pos)
               => next.suggest_list # <<>>
    /\ sc.suggest_list # <<>> =>
           /\ complete(sc).suggest_list = sc.suggest_list
           /\ backcomplete(sc).suggest_list = sc.suggest_list

\* a substitution at the end of the text has just been made
C27_Witness ==
    /\ sc.suggest_list # <<>>
    /\ sc.pos = Len(sc.str)
    /\ sc.clear_suggest

(* ------------------------- claims on the mouse ------------------------- *)
\* C28: a mouse event whose button state has no handler in the key table
\* tried is cached as (x, y, state); the next dispatch takes exactly the
\* cached data and does not read the driver, and the cache is empty once the
\* data has been taken, so that every handler runs with the coordinates and
\* the state of the event it is run for
C28_MouseCache ==
    /\ \A o \in {p \in Overlays : mouse_bound(p)} :
           \A r \in {_callmouse(scr, o)} :
               /\ scr.last_mouse # <<>> =>
                      r.data = scr.last_mouse /\ r.s.driver = scr.driver
               /\ r.handled => r.s.last_mouse = <<>>
               /\ (~r.handled /\ r.data # <<>>) => r.s.last_mouse = r.data
    /\ \A o \in {p \in Overlays : mouse_bound(p)}, click \in Clicks :
           \A r \in {mouse(scr, o, click)} :
               r.data = click /\ r.s.last_mouse = <<>>
    /\ scr.own # "other"

(* -------------------- claims on ChatOverlay.run_key -------------------- *)
\* the message log after Screen.input has dispatched unit
Deselected(unit) == IF input(scr, unit).deselect THEN stop_select(ms) ELSE ms
\* the ChatOverlay is on the stack with one of its messages selected
ChatSelected == InStack(scr.ins, "chat") /\ ms.selector # 0
\* the overlay whose run_key Screen.input calls is the ChatOverlay
ChatIsContext ==
    /\ scr.ins # <<>>
    /\ scr.last_replace >= 0
    /\ scr.last_replace < Len(scr.ins)
    /\ InsAt(scr, scr.last_replace) = "chat"

Without(all, gone) == SelectSeq(all, LAMBDA msg : msg.mid \notin gone)
\* the id of the newest message the test holds for
NewestOf(all, mids) ==
    all[CHOOSE i \in 1..Len(all) :
            /\ all[i].mid \in mids
            /\ \A j \in (i + 1)..Len(all) : all[j].mid \notin mids].mid

\* C31: delete(test) removes exactly the newest message the test holds for
\* and no other, delete(test, delete_all=True) removes every message the
\* test holds for; the messages that remain keep their relative order, and
\* a test that holds for no message (an empty log included) removes nothing.
C31_DeleteRemoves ==
    \A mids \in SUBSET (0..(MaxMid - 1)) :
        /\ delete(ms, mids, TRUE).all = Without(ms.all, mids)
        /\ delete(ms, mids, FALSE).all =
              IF Mids(ms.all) \cap mids = {} THEN ms.all
              ELSE Without(ms.all, {NewestOf(ms.all, mids)})
        /\ ms.all = <<>> => delete(ms, mids, TRUE) = ms /\ delete(ms, mids, FALSE) = ms
\* three messages, the test holding for the newest and the oldest of them,
\* with the message between them selected
C31_Witness ==
    /\ Len(ms.all) = 3
    /\ ms.selector = 2
    /\ Len(delete(ms, {ms.all[1].mid, ms.all[3].mid}, TRUE).all) = 1
    /\ Len(delete(ms, {ms.all[1].mid, ms.all[3].mid}, FALSE).all) = 2
    /\ delete(ms, {ms.all[1].mid, ms.all[3].mid}, FALSE).all[2] = ms.all[2]

(* ------------------------- claims on the input line -------------------- *)
\* the lines the input line can hold
Lines ==
    UNION {[1..n -> {"/", "q"}] : n \in 0..MaxLine}
\* Enter arrives at the TextOverlay on top of the stack
Submits ==
    /\ scr.active
    /\ lp.ready = <<>>
    /\ scr.ins # <<>>
    /\ scr.last_replace < Len(scr.ins)
    /\ isTextOverlay(InsAt(scr, Len(scr.ins) - 1))
    /\ ~scr.escape_mode
\* the line is a command line
IsCommand == scr.text.str # <<>> /\ scr.text.str[1] = Command_CHAR
\* the state Enter leaves
Entered == line_input(Now, "text", <<"\n">>)

\* C32: on Enter in the input line, a line that is not isolated and starts
\* with the command character has its rest run as a command and the text
\* overlay's future is left unresolved, any other line becomes the result of
\* the future of the last text overlay; either way the line is empty
\* afterwards and a line that is not isolated has been appended to the
\* history.
C32_EnterSubmits ==
    Submits =>
        /\ Entered.exc = "none"
        /\ IF ~NScrollable_isolated(scr) /\ IsCommand
           THEN /\ Entered.w.l = Command_run(Now, Tail(scr.text.str)).l
                /\ Entered.w.f = fo
           ELSE /\ Entered.w.f.future[InsAt(scr, scr.last_text)] = "done"
                /\ Entered.w.f.value[InsAt(scr, scr.last_text)]
                       = <<scr.text.str>>
        /\ Entered.w.s.text.str = <<>>
        /\ ~NScrollable_isolated(scr) =>
               /\ Entered.w.s.history.history # <<>>
               /\ Entered.w.s.history.history[Len(Entered.w.s.history.history)]
                      = scr.text.str
               /\ Entered.w.s.history.history
                      = LastOf(Append(scr.history.history, scr.text.str),
                               HistorySize)

(* --------------------------- claims on History ------------------------- *)
\* C37: after History.append(x), x is the newest entry, the history holds
\* at most size entries, the oldest having been dropped first, and the
\* browsing index is back at the bottom, whether or not the history was
\* browsed before.
C37_AppendIsNewest ==
    \A x \in Lines :
        \E n \in {History_append(scr.history, x)} :
            /\ n.history = LastOf(Append(scr.history.history, x), n.size)
            /\ Len(n.history) <= n.size
            /\ n.history[Len(n.history)] = x
            /\ n.selhis = 0

\* most calls of nexthist in a row
MaxBrowse == 3
\* n calls of nexthist and of prevhist, each given the text shown last
RECURSIVE Older(_, _, _)
Older(h, text, n) ==
    IF n = 0 THEN Shown(h, text)
    ELSE Older(nexthist(h, text).h, nexthist(h, text).ret, n - 1)
RECURSIVE Newer(_, _, _)
Newer(h, text, n) ==
    IF n = 0 THEN Shown(h, text)
    ELSE Newer(prevhist(h, text).h, prevhist(h, text).ret, n - 1)
\* the browsing index is one of the history
InHistory(h) == 0 <= h.selhis /\ h.selhis <= Len(h.history)

\* C38: from the bottom of a History that is not empty, with the draft d in
\* the line (empty or not), n calls of nexthist and then n calls of
\* prevhist, each given the text shown last, show d again, and the browsing
\* index stays between 0 and the number of entries.
C38_BrowseRoundTrip ==
    (scr.history.history # <<>> /\ scr.history.selhis = 0) =>
        \A n \in 1..MaxBrowse :
            /\ \A k \in 0..n :
                   /\ InHistory(Older(scr.history, scr.text.str, k).h)
                   /\ InHistory(Newer(Older(scr.history, scr.text.str, n).h,
                                      Older(scr.history, scr.text.str, n).ret,
                                      k).h)
            /\ Newer(Older(scr.history, scr.text.str, n).h,
                     Older(scr.history, scr.text.str, n).ret, n).ret
                   = scr.text.str

(* --------------- the message log under a resize: the state machine ----- *)
\* the columns the terminal is narrowed to
NarrowWidth == SCREEN_WIDTH \div 2

\* the heights Message.cache_display's breaklines can give a text at half
\* the width it took nat lines at: every line splits in two at most, and a
\* filtered message has no lines at any width
NarrowHeights(nat) == nat..(2 * nat)

\* the log after parent.width has changed: the wraps the messages have now
\* differ, their cached displays are as they were
Narrowed(m, nats) ==
    [m EXCEPT !.all = [i \in DOMAIN m.all |-> [m.all[i] EXCEPT !.nat = nats[i]]]]

\* Message.move_filter for the messages of mids: they wrap to no lines now
Filtered(m, mids) ==
    [m EXCEPT !.all = [i \in DOMAIN m.all |->
                          IF m.all[i].mid \in mids
                          THEN [m.all[i] EXCEPT !.nat = 0]
                          ELSE m.all[i]]]

\* most messages held while the terminal is resized
WrMaxMsgs == 2
\* tallest message appended, in lines at the full width
WrMaxHeight == 2

\* ChatOverlay.msg_append with a new Message
WrAppend ==
    \E h \in 1..WrMaxHeight :
        /\ Len(ms.all) < WrMaxMsgs
        /\ msg_count < MaxMid
        /\ ms' = append(ms, Message(msg_count, h))
        /\ msg_count' = msg_count + 1
        /\ UNCHANGED <<gen, sc, scr, fo, lp, col>>

\* ChatOverlay.msg_prepend with a new Message
WrPrepend ==
    \E h \in 1..WrMaxHeight :
        /\ Len(ms.all) < WrMaxMsgs
        /\ msg_count < MaxMid
        /\ ms' = prepend(ms, Message(msg_count, h))
        /\ msg_count' = msg_count + 1
        /\ UNCHANGED <<gen, sc, scr, fo, lp, col>>

\* Screen.resize narrowing the terminal: ChatOverlay.resize ->
\* Messages.redo_lines(False), and the Screen.display that ends it
WrResize ==
    /\ lp.width = SCREEN_WIDTH
    /\ \E nats \in [DOMAIN ms.all -> 0..(2 * WrMaxHeight)] :
          /\ \A i \in DOMAIN ms.all : nats[i] \in NarrowHeights(ms.all[i].nat)
          /\ ms' = Messages_display(redo_lines(Narrowed(ms, nats)), NoLines).m
    /\ lp' = [lp EXCEPT !.width = NarrowWidth]
    /\ UNCHANGED <<gen, msg_count, sc, scr, fo, col>>

\* ChatOverlay.cycle_message_filter: move_filter, then redo_lines()
WrFilter ==
    \E mid \in Mids(ms.all) :
        /\ ms' = redo_lines(Filtered(ms, {mid}))
        /\ UNCHANGED <<gen, msg_count, sc, scr, fo, lp, col>>

\* Messages.stop_select
WrStop ==
    /\ ms.selector # 0
    /\ ms' = stop_select(ms)
    /\ UNCHANGED <<gen, msg_count, sc, scr, fo, lp, col>>

WrNext ==
    \/ WrAppend \/ WrPrepend \/ MsgDelete \/ MsgUp \/ MsgDown \/ MsgDisplay
    \/ WrResize \/ WrFilter \/ WrStop

\* the message log redrawn, narrowed, filtered and deselected between the
\* operations
SpecWrap == MsgInit /\ [][WrNext]_vars

(* ----------------------- claims on the lazy bounds --------------------- *)
\* the messages the while loop of Messages.up passes without re-wrapping
\* them (chat.py:297-313)
RECURSIVE UpSkips(_, _, _, _)
UpSkips(m, select, num_messages, amount) ==
    IF num_messages < amount /\ select <= Len(m.all)
    THEN LET skip == InCachedRange(m, select - m.lazy_offset)
             last_height == IF skip THEN At(m.all, select).height
                            ELSE cache_display(At(m.all, select)).height
         IN (IF skip THEN {select} ELSE {})
            \cup UpSkips(m, select + 1,
                         IF last_height # 0 THEN num_messages + 1
                         ELSE num_messages, amount)
    ELSE {}

\* the messages the while loop of Messages.down passes without re-wrapping
\* them (chat.py:379-392)
RECURSIVE DownSkips(_, _, _, _)
DownSkips(m, select, num_messages, amount) ==
    IF num_messages <= amount /\ select # 0 /\ ValidIndex(m.all, select)
    THEN LET skip == InCachedRange(m, select - m.lazy_offset)
             h == IF skip THEN At(m.all, select).height
                  ELSE cache_display(At(m.all, select)).height
         IN (IF skip THEN {select} ELSE {})
            \cup DownSkips(m, select - 1,
                           IF h # 0 THEN num_messages + 1 ELSE num_messages,
                           amount)
    ELSE {}

\* the cached display of the message has the lines display would paint
Fresh(m, select) == At(m.all, select).height = cache_display(At(m.all, select)).height

\* up(amount) goes by messages at once
UpGoesByMessages(m) == m.start_message + 1 # m.selector /\ m.hidden_top = 0
\* down(amount) goes by messages at once
DownGoesByMessages(m) ==
    /\ m.selector # 0
    /\ ~(m.selector = m.start_message + 1 /\ m.start_inner > 0)

\* C33: every message that up or down passes inside the lazy bounds without
\* re-wrapping it has a cached display of the height display() would paint,
\* whatever appends, prepends, deletes, resizes, filter changes and
\* stop_selects came before.
C33_SkipsAreFresh ==
    \A k \in 1..MaxAmount :
        /\ UpGoesByMessages(ms)
              => \A select \in UpSkips(ms, ms.selector + 1, 0, k) :
                    Fresh(ms, select)
        /\ DownGoesByMessages(ms)
              => \A select \in DownSkips(ms, ms.selector, 0, k) :
                    Fresh(ms, select)

(* --------------------- claims on the viewport integers ----------------- *)
\* C34: after any sequence of append, prepend, delete, up, down, scroll_top
\* and redo_lines, start_inner >= 0, hidden_top >= 0 and
\* 0 <= height_up <= parent.height - 1; up(k) and down(k) with k > 1 do not
\* drive start_inner or hidden_top negative.
C34_WindowIntegers ==
    /\ ms.start_inner >= 0
    /\ ms.hidden_top >= 0
    /\ 0 <= ms.height_up
    /\ ms.height_up <= ViewHeight

\* C35: no reachable sequence of append, prepend, delete, up, down,
\* scroll_top and display makes Messages read a message at an index outside
\* 1..len(messages): up, down with their _justify_start and the selected
\* property raise no IndexError.
C35_NoIndexError ==
    /\ ms.selector # 0 => ValidIndex(ms.all, ms.selector)
    /\ \A k \in 1..MaxAmount : ~up(ms, k).err /\ ~down(ms, k).err

\* display() paints a row of the selected message of m
PaintsSelected(m) ==
    \E y \in 1..ScreenHeight :
        /\ Messages_display(m, NoLines).lines[y].reverse
        /\ Messages_display(m, NoLines).lines[y].mid = selected(m).mid

\* the call returned and left a message selected
LeavesSelection(r) == ~r.err /\ HasSelected(r.m)

\* C36: after any up or down call that leaves a selection active, display()
\* paints at least one row that belongs to the selected message.
C36_SelectionPainted ==
    \A k \in 1..MaxAmount :
        /\ LeavesSelection(up(ms, k)) => PaintsSelected(up(ms, k).m)
        /\ LeavesSelection(down(ms, k)) => PaintsSelected(down(ms, k).m)

(* ------------------- claims on FutureOverlay's callback ---------------- *)
\* the loop is about to run _new_callback for the result of o's future
CallbackDue(o) ==
    /\ lp.ready # <<>>
    /\ Head(lp.ready) = FutureHandle("_new_callback", o, "done")

\* the program after that run, _callback having returned ret
AfterCallback(o, ret) ==
    _new_callback(World(fo, scr, [lp EXCEPT !.ready = Tail(@)], ms), o,
                  "done", ret)

\* the keys that set the result of o
ResultKeys(o) == IF o = "chat" THEN {"newline"} ELSE {"enter", "tab"}

\* how many runs of _new_callback with a result of o the loop has queued
Deliveries(w, o) ==
    Cardinality({i \in 1..Len(w.l.ready) :
                    w.l.ready[i] = FutureHandle("_new_callback", o, "done")})

\* every key that sets the result of o hands a result to _new_callback
DeliversLater(w, o) ==
    \A key \in ResultKeys(o) :
        Deliveries(set_result(w, o, key), o) = Deliveries(w, o) + 1

\* no key that sets the result of o hands a result to _new_callback
DeliversNoMore(w, o) ==
    \A key \in ResultKeys(o) :
        Deliveries(set_result(w, o, key), o) = Deliveries(w, o)

\* _callback is set and returned a truthy value
Truthy(o, ret) == has_callback(o) /\ ret

\* C39 (as stated): when the future of a FutureOverlay completes and its
\* callback returns a falsy value, or none is set, the overlay is in the
\* stack afterwards and a fresh pending future is armed that delivers the
\* result of a later Enter or Tab; when the callback returns a truthy value
\* the overlay is out of the stack and no further result is delivered.
C39_FalsyKeepsOverlay ==
    \A o \in LoopOverlays, ret \in BOOLEAN :
        CallbackDue(o) =>
            IF Truthy(o, ret)
            THEN /\ AfterCallback(o, ret).s.index[o] = None
                 /\ DeliversNoMore(AfterCallback(o, ret), o)
            ELSE /\ AfterCallback(o, ret).s.index[o] # None
                 /\ AfterCallback(o, ret).f.future[o] = "pending"
                 /\ AfterCallback(o, ret).f.armed[o]
                 /\ DeliversLater(AfterCallback(o, ret), o)

\* C39 (amended): a falsy callback, or none, leaves the overlay where it is
\* in the stack (Enter has removed it before the callback runs, Tab and the
\* input line's Enter have not) and arms a fresh pending future that
\* delivers the result of a later Enter or Tab; a truthy callback leaves the
\* overlay out of the stack and no further result is delivered.
C39_FalsyRearms ==
    \A o \in LoopOverlays, ret \in BOOLEAN :
        CallbackDue(o) =>
            IF Truthy(o, ret)
            THEN /\ AfterCallback(o, ret).s.index[o] = None
                 /\ DeliversNoMore(AfterCallback(o, ret), o)
            ELSE /\ AfterCallback(o, ret).s.index[o] = scr.index[o]
                 /\ AfterCallback(o, ret).f.future[o] = "pending"
                 /\ AfterCallback(o, ret).f.armed[o]
                 /\ DeliversLater(AfterCallback(o, ret), o)

\* Tab has set the result of the ListOverlay, which is still in the stack,
\* and its callback is about to run
C39_Witness == CallbackDue("list") /\ scr.index["list"] # None

(* ------------------- iterate_with: the state machine ------------------- *)
\* ChatOverlay.msg_append before the log is searched
ItAppend ==
    /\ gen = NoGenerator
    /\ Len(ms.all) < MaxMsgs
    /\ msg_count < MaxMid
    /\ ms' = append(ms, Message(msg_count, 1))
    /\ msg_count' = msg_count + 1
    /\ UNCHANGED <<sc, scr, fo, lp, col, gen>>

\* Messages.iterate_with(callback), for every callback
ItCall ==
    /\ gen = NoGenerator
    /\ \E callback \in [Mids(ms.all) -> Outcomes] :
          gen' = iterate_with(ms, callback)
    /\ UNCHANGED <<ms, msg_count, sc, scr, fo, lp, col>>

\* the generator runs on: next() was called on it (LazyIterList) or the
\* while loop makes its next pass
ItResume ==
    /\ gen.state \in {"created", "running", "suspended"}
    /\ gen' = resume(ms, gen)
    /\ UNCHANGED <<ms, msg_count, sc, scr, fo, lp, col>>

ItNext == ItAppend \/ ItCall \/ ItResume

SpecIterate == MsgInit /\ [][ItNext]_vars

\* the generator is run for as long as it can go on
SpecIterateFair == SpecIterate /\ WF_vars(ItResume)

(* ----------------------- claims on iterate_with ------------------------ *)
\* the messages the callback is true for, with their indices
TrueFor(m, g) ==
    {<<At(m.all, select).mid, select>> : select \in
        {x \in 1..Len(m.all) : g.callback[At(m.all, x).mid] = "true"}}

\* no message was handed to the callback twice
VisitedOnce(g) == \A mid \in DOMAIN g.visits : g.visits[mid] <= 1

\* the messages were yielded from the newest to the oldest
NewestFirst(g) ==
    \A i, j \in 1..Len(g.yielded) : i < j => g.yielded[i][2] < g.yielded[j][2]

\* exactly the messages the callback is true for were yielded
YieldedAll(m, g) == {g.yielded[i] : i \in 1..Len(g.yielded)} = TrueFor(m, g)

\* C40: iterate_with(callback) terminates for every callback, also one that
\* raises for some message; it hands each message to the callback at most
\* once, from the newest to the oldest, and has yielded exactly the messages
\* the callback is true for when it ends.
C40_IterateTerminates ==
    /\ [](VisitedOnce(gen) /\ NewestFirst(gen))
    /\ [](gen.state = "done" => YieldedAll(ms, gen))
    /\ (gen.state = "created" ~> gen.state = "done")

====
